---- MODULE Spec2Model ----
(***************************************************************************)
(* Model of the form-duplication engine of google-forms-mcp               *)
(* (src/src/gforms/api.py): FormsAPI.duplicate_form and its two paths,    *)
(* _duplicate_form_batch and _duplicate_form_legacy, the item sanitizer   *)
(* _clean_item_for_duplication, create_form, personalize_form with the    *)
(* update_form and update_item it calls, and the remote Forms/Drive       *)
(* service they call.                                                      *)
(*                                                                         *)
(* Three specifications share the state: Spec runs a duplication, SanSpec *)
(* the sanitizer on its own, PerSpec a personalization; the variables of  *)
(* the other two stay idle.                                                *)
(*                                                                         *)
(* JSON objects are functions from field names to values, so that a       *)
(* Python `'k' in d` is `k \in DOMAIN d`.  Text is a sequence of          *)
(* one-character strings, so that str.replace is computed, not assumed.   *)
(***************************************************************************)
EXTENDS Integers, Sequences, FiniteSets, TLC

(***************************************************************************)
(* Bounds of the model.                                                    *)
(***************************************************************************)
MaxItems == 3

MaxChunk == 3

\* chunk_size is an unvalidated int argument of duplicate_form.
ChunkSizes == {-1} \cup (0 .. MaxChunk)

\* duplicate_form's default chunk_size
DefaultChunk == 100

\* The remote assigns item identifiers from FreshBase upwards; the source
\* form's item identifiers are 1 .. MaxItems.
FreshBase == MaxItems + 1

(***************************************************************************)
(* Python dict and str primitives.                                         *)
(***************************************************************************)
EmptyDict == <<>>

Has(d, k) == k \in DOMAIN d

Pop(d, k) == [y \in DOMAIN d \ {k} |-> d[y]]

Put(d, k, v) == [y \in DOMAIN d \cup {k} |-> IF y = k THEN v ELSE d[y]]

\* dict.get(k, default)
Get(d, k, default) == IF Has(d, k) THEN d[k] ELSE default

RECURSIVE Replace(_, _, _)
\* str.replace(old, new) for a one-character `old`
Replace(s, old, new) ==
    IF s = <<>> THEN <<>>
    ELSE (IF Head(s) = old THEN new ELSE <<Head(s)>>) \o Replace(Tail(s), old, new)

\* a cleaning that turns a carriage return into a line feed
CleanTextCRtoLF(s) == Replace(Replace(s, "\n", <<" ">>), "\r", <<"\n">>)

\* .replace('\n', ' ').replace('\r', '')
CleanText(s) == Replace(Replace(s, "\n", <<" ">>), "\r", <<>>)

RECURSIVE ReplaceAll(_, _, _)
\* str.replace(old, new) for a non-empty `old`: the occurrences are taken
\* from the left and do not overlap
ReplaceAll(s, old, new) ==
    IF s = <<>> THEN <<>>
    ELSE IF Len(old) <= Len(s) /\ SubSeq(s, 1, Len(old)) = old
    THEN new \o ReplaceAll(SubSeq(s, Len(old) + 1, Len(s)), old, new)
    ELSE <<Head(s)>> \o ReplaceAll(Tail(s), old, new)

\* the characters str.strip() removes
Whitespace == {" ", "\n", "\r", "\t"}

RECURSIVE LStrip(_)
LStrip(s) == IF s # <<>> /\ Head(s) \in Whitespace THEN LStrip(Tail(s)) ELSE s

RECURSIVE RStrip(_)
RStrip(s) ==
    IF s # <<>> /\ s[Len(s)] \in Whitespace THEN RStrip(SubSeq(s, 1, Len(s) - 1)) ELSE s

\* str.strip()
Strip(s) == RStrip(LStrip(s))

HasNewline(s) == \E i \in DOMAIN s : s[i] \in {"\n", "\r"}

(***************************************************************************)
(* The item sanitizer.                                                     *)
(***************************************************************************)
CleanOptions(options) ==
    [i \in DOMAIN options |->
        IF Has(options[i], "value")
        THEN Put(options[i], "value", CleanText(options[i].value))
        ELSE options[i]]

\* a scale cleaning that forgets the high label
CleanScaleLowOnly(scale) ==
    IF Has(scale, "lowLabel")
    THEN Put(scale, "lowLabel", CleanText(scale.lowLabel)) ELSE scale

CleanScale(scale) ==
    LET s1 == IF Has(scale, "lowLabel")
              THEN Put(scale, "lowLabel", CleanText(scale.lowLabel)) ELSE scale
    IN  IF Has(s1, "highLabel")
        THEN Put(s1, "highLabel", CleanText(s1.highLabel)) ELSE s1

CleanChoice(choice) ==
    IF Has(choice, "options")
    THEN Put(choice, "options", CleanOptions(choice.options))
    ELSE choice

\* CleanQuestion without the pop of questionId
CleanQuestionKeepId(questionItem) ==
    LET q0 == questionItem.question
        q1 == IF Has(q0, "scaleQuestion")
              THEN Put(q0, "scaleQuestion", CleanScale(q0.scaleQuestion)) ELSE q0
        q2 == IF Has(q1, "choiceQuestion")
              THEN Put(q1, "choiceQuestion", CleanChoice(q1.choiceQuestion)) ELSE q1
        qi == [question |-> q2]
    IN  IF Has(questionItem, "image")
        THEN Put(qi, "image", questionItem.image) ELSE qi

\* the questionItem branch: deep copy of the question, questionId popped,
\* scale labels and choice option values cleaned, image carried over
CleanQuestion(questionItem) ==
    LET q0 == Pop(questionItem.question, "questionId")
        q1 == IF Has(q0, "scaleQuestion")
              THEN Put(q0, "scaleQuestion", CleanScale(q0.scaleQuestion)) ELSE q0
        q2 == IF Has(q1, "choiceQuestion")
              THEN Put(q1, "choiceQuestion", CleanChoice(q1.choiceQuestion)) ELSE q1
        qi == [question |-> q2]
    IN  IF Has(questionItem, "image")
        THEN Put(qi, "image", questionItem.image) ELSE qi

\* the questionGroupItem branch: deep copy of the group, questionId popped
\* from every sub-question, grid column option values cleaned
CleanGroup(group) ==
    LET g1 == IF Has(group, "questions")
              THEN Put(group, "questions",
                       [i \in DOMAIN group.questions |->
                           Pop(group.questions[i], "questionId")])
              ELSE group
    IN  IF Has(g1, "grid") /\ Has(g1.grid, "columns") /\ Has(g1.grid.columns, "options")
        THEN Put(g1, "grid",
                 Put(g1.grid, "columns",
                     Put(g1.grid.columns, "options",
                         CleanOptions(g1.grid.columns.options))))
        ELSE g1

\* title and description, newline-cleaned, when present
CleanBasic(original_item) ==
    LET c1 == IF Has(original_item, "title")
              THEN Put(EmptyDict, "title", CleanText(original_item.title))
              ELSE EmptyDict
    IN  IF Has(original_item, "description")
        THEN Put(c1, "description", CleanText(original_item.description))
        ELSE c1

_clean_item_for_duplication(original_item) ==
    LET clean_item == CleanBasic(original_item)
    IN  IF Has(original_item, "questionItem")
        THEN Put(clean_item, "questionItem", CleanQuestion(original_item.questionItem))
        ELSE IF Has(original_item, "questionGroupItem")
        THEN Put(clean_item, "questionGroupItem", CleanGroup(original_item.questionGroupItem))
        ELSE IF Has(original_item, "pageBreakItem")
        THEN Put(clean_item, "pageBreakItem", original_item.pageBreakItem)
        ELSE IF Has(original_item, "textItem")
        THEN Put(clean_item, "textItem", original_item.textItem)
        ELSE IF Has(original_item, "imageItem")
        THEN Put(clean_item, "imageItem", original_item.imageItem)
        ELSE IF Has(original_item, "videoItem")
        THEN Put(clean_item, "videoItem", original_item.videoItem)
        ELSE clean_item

\* an alias in place of the deep copy: the in-place writes reach the object
\* the caller holds
AfterAlias(held, written) == written

\* copy.deepcopy: the in-place writes that follow go to the copy, and the
\* object the caller holds keeps its value
AfterDeepCopy(held, written) == held

\* the caller's item object after _clean_item_for_duplication has run on it:
\* the sanitizer pops and assigns in `question` and in `group` only
CallerItemAfter(original_item) ==
    IF Has(original_item, "questionItem")
    THEN Put(original_item, "questionItem",
             Put(original_item.questionItem, "question",
                 AfterDeepCopy(original_item.questionItem.question,
                               CleanQuestion(original_item.questionItem).question)))
    ELSE IF Has(original_item, "questionGroupItem")
    THEN Put(original_item, "questionGroupItem",
             AfterDeepCopy(original_item.questionGroupItem,
                           CleanGroup(original_item.questionGroupItem)))
    ELSE original_item

(***************************************************************************)
(* Source forms.  An item shape is an item as the read API returns it,    *)
(* before its identifiers are stamped; the k-th item of a form gets       *)
(* itemId k and question identifiers 10*k + j.                            *)
(***************************************************************************)
ChoiceShape ==
    [title |-> <<"a", "\n">>,
     questionItem |->
        [question |->
            [required |-> TRUE,
             choiceQuestion |->
                [type |-> "RADIO",
                 options |-> << [value |-> <<"x", "\r">>], [value |-> <<"y">>] >>]]]]

GridShape ==
    [title |-> <<"g">>,
     description |-> <<"d", "\n", "e">>,
     questionGroupItem |->
        [questions |-> << [rowQuestion |-> [title |-> <<"r">>]],
                          [rowQuestion |-> [title |-> <<"s">>]] >>,
         grid |-> [columns |-> [type |-> "RADIO",
                                options |-> << [value |-> <<"c", "\n">>] >>]]]]

\* an item of a kind the sanitizer does not know
OtherShape == [title |-> <<"u">>, otherItem |-> EmptyDict]

Shapes == {ChoiceShape, GridShape, OtherShape}

WithIds(shape, k) ==
    LET it == Put(shape, "itemId", k)
    IN  IF Has(it, "questionItem")
        THEN Put(it, "questionItem",
                 Put(it.questionItem, "question",
                     Put(it.questionItem.question, "questionId", 10 * k)))
        ELSE IF Has(it, "questionGroupItem")
        THEN Put(it, "questionGroupItem",
                 Put(it.questionGroupItem, "questions",
                     [j \in DOMAIN it.questionGroupItem.questions |->
                         Put(it.questionGroupItem.questions[j], "questionId", 10 * k + j)]))
        ELSE it

ItemSeqs ==
    UNION {{[k \in 1 .. n |-> WithIds(f[k], k)] : f \in [1 .. n -> Shapes]} : n \in 0 .. MaxItems}

\* the settings block of a source form, when it has one
SettingsShapes ==
    {[emailCollectionType |-> "VERIFIED"],
     [quizSettings |-> [isQuiz |-> TRUE]],
     [quizSettings |-> EmptyDict]}

Infos == {[title |-> <<"T">>], [title |-> <<"T">>, description |-> <<"D">>]}

SourceForms ==
    LET bare == {[formId |-> "src", info |-> i, items |-> its] : i \in Infos, its \in ItemSeqs}
    IN  bare \cup {Put(f, "settings", s) : f \in bare, s \in SettingsShapes}

new_title == <<"N">>

(***************************************************************************)
(* State.                                                                  *)
(*   source, use_batch, chunk_size : the remote source form and the       *)
(*       arguments of duplicate_form                                      *)
(*   dest, driveName, nextId : the remote service's destination form      *)
(*       (EmptyDict until created), its Drive document name, and the      *)
(*       next item identifier the service assigns                         *)
(*   pc, original, batch_requests, chunks, chunk_idx, item_i, api_calls,  *)
(*   total_copied, copied_count, result, error : the client's position    *)
(*       and locals (item_i is the legacy loop's i)                       *)
(*   calls, sent, applyLog : history of the run, kept for the properties: *)
(*       remote calls issued, the copy-phase batchUpdate bodies with      *)
(*       their outcome, and for each createItem the remote applied its    *)
(*       index and the number of items present at that moment             *)
(***************************************************************************)
VARIABLES source, use_batch, chunk_size, dest, driveName, nextId,
          pc, original, batch_requests, chunks, chunk_idx, item_i, api_calls,
          total_copied, copied_count, result, error, calls, sent, applyLog

(***************************************************************************)
(* State of a sanitizer call, for the properties of                       *)
(* _clean_item_for_duplication on its own.                                *)
(*   san_pc : "idle" outside a sanitizer run, else how far the run is     *)
(*   san_item : the item object the caller holds, as it is now            *)
(*   san_given : the value of that item when the caller built it          *)
(*   san_first : what the first call on san_item returned                 *)
(*   san_second : what a second call on san_item returned                 *)
(*   san_nested : what the call on san_first returned                     *)
(***************************************************************************)
VARIABLES san_pc, san_item, san_given, san_first, san_second, san_nested

(***************************************************************************)
(* State of a personalize_form call.                                      *)
(*   per_pc : "idle" outside a personalization run, else the client's     *)
(*       position                                                          *)
(*   per_form, per_drive : the remote form being personalized and its     *)
(*       Drive document name                                               *)
(*   replacements : the mapping argument, a dict in insertion order, as   *)
(*       the sequence of its (placeholder, replacement) pairs             *)
(*   fetched, per_i, items_updated, updates_made, per_result, per_error : *)
(*       the locals `form`, the item loop's position, items_updated and   *)
(*       updates_made, the returned value and the raised error            *)
(*   per_log : history, kept for the properties: the update_form and      *)
(*       update_item calls made, with the remote calls each issued        *)
(***************************************************************************)
VARIABLES per_pc, per_form, per_drive, replacements, fetched, per_i, items_updated,
          updates_made, per_result, per_error, per_log

(***************************************************************************)
(* State of one item operation (add_question, update_item,                *)
(* delete_question, move_question) on a remote form.                      *)
(*   ops_pc : "idle" outside such a run, "ready" before the call,         *)
(*       "returned" or "raised" after it                                  *)
(*   ops_form : the remote form                                           *)
(*   ops_before : the remote form when the operation was called           *)
(*   ops_call : the operation called, with its arguments                  *)
(*   ops_fetched : the forms the operation's get_form calls returned      *)
(*   ops_sent : the batchUpdate bodies the operation issued, each with    *)
(*       its outcome                                                      *)
(*   ops_error : the error the operation raised                           *)
(***************************************************************************)
VARIABLES ops_pc, ops_form, ops_before, ops_call, ops_fetched, ops_sent, ops_error

(***************************************************************************)
(* State of a create_from_template call.                                  *)
(*   tpl_pc : "idle" outside such a run, else the client's position       *)
(*   tpl_questions : the template's `questions` list                      *)
(*   tpl_form : the remote form create_form made                          *)
(*   tpl_i, questions_added, actual_position : the loop's position and    *)
(*       the two counters                                                 *)
(*   tpl_log : for every template question, what became of it: the        *)
(*       add_question call made for it, if any, and its outcome           *)
(*   tpl_result : the returned value                                      *)
(***************************************************************************)
VARIABLES tpl_pc, tpl_questions, tpl_form, tpl_i, questions_added, actual_position,
          tpl_log, tpl_result

(***************************************************************************)
(* State of a list_forms call.                                            *)
(*   lst_pc : "idle" outside such a run, else the client's position       *)
(*   lst_remote : the remote forms, by the position of their file in the  *)
(*       Drive listing                                                    *)
(*   lst_files : the files the Drive listing returned                     *)
(*   lst_i : the loop's position                                          *)
(*   lst_form : the local `form`: the empty sequence while the name is    *)
(*       unbound, else the form it is bound to, as a one-element sequence *)
(*   lst_forms : the list `forms` being built                             *)
(*   lst_failed : the files whose details could not be fetched            *)
(*   lst_error : the error list_forms raised                              *)
(***************************************************************************)
VARIABLES lst_pc, lst_remote, lst_files, lst_i, lst_form, lst_forms, lst_failed, lst_error

dupVars == <<source, use_batch, chunk_size, dest, driveName, nextId,
             pc, original, batch_requests, chunks, chunk_idx, item_i, api_calls,
             total_copied, copied_count, result, error, calls, sent, applyLog>>

sanVars == <<san_pc, san_item, san_given, san_first, san_second, san_nested>>

perVars == <<per_pc, per_form, per_drive, replacements, fetched, per_i, items_updated,
            updates_made, per_result, per_error, per_log>>

opsVars == <<ops_pc, ops_form, ops_before, ops_call, ops_fetched, ops_sent, ops_error>>

tplVars == <<tpl_pc, tpl_questions, tpl_form, tpl_i, questions_added, actual_position,
            tpl_log, tpl_result>>

lstVars == <<lst_pc, lst_remote, lst_files, lst_i, lst_form, lst_forms, lst_failed, lst_error>>

\* the variables a duplication run leaves alone
aside == <<sanVars, perVars, opsVars, tplVars, lstVars>>

vars == <<dupVars, sanVars, perVars, opsVars, tplVars, lstVars>>

\* no item operation
OpsIdle ==
    /\ ops_pc = "idle"
    /\ ops_form = EmptyDict
    /\ ops_before = EmptyDict
    /\ ops_call = EmptyDict
    /\ ops_fetched = <<>>
    /\ ops_sent = <<>>
    /\ ops_error = "none"

\* no template run
TplIdle ==
    /\ tpl_pc = "idle"
    /\ tpl_questions = <<>>
    /\ tpl_form = EmptyDict
    /\ tpl_i = 0
    /\ questions_added = 0
    /\ actual_position = 0
    /\ tpl_log = <<>>
    /\ tpl_result = EmptyDict

\* no listing run
LstIdle ==
    /\ lst_pc = "idle"
    /\ lst_remote = <<>>
    /\ lst_files = <<>>
    /\ lst_i = 0
    /\ lst_form = <<>>
    /\ lst_forms = <<>>
    /\ lst_failed = {}
    /\ lst_error = "none"

\* no sanitizer run
SanIdle ==
    /\ san_pc = "idle"
    /\ san_item = EmptyDict
    /\ san_given = EmptyDict
    /\ san_first = EmptyDict
    /\ san_second = EmptyDict
    /\ san_nested = EmptyDict

\* no personalization run
PerIdle ==
    /\ per_pc = "idle"
    /\ per_form = EmptyDict
    /\ per_drive = <<>>
    /\ replacements = <<>>
    /\ fetched = EmptyDict
    /\ per_i = 0
    /\ items_updated = 0
    /\ updates_made = <<>>
    /\ per_result = EmptyDict
    /\ per_error = "none"
    /\ per_log = <<>>

inputs == <<source, use_batch, chunk_size>>

remote == <<dest, driveName, nextId>>

history == <<calls, sent, applyLog>>

(***************************************************************************)
(* The remote Forms service: forms.batchUpdate applies the requests in    *)
(* array order, all or nothing.                                           *)
(***************************************************************************)
InsertAt(items, index, item) ==
    SubSeq(items, 1, index) \o <<item>> \o SubSeq(items, index + 1, Len(items))

\* updateSettings: a wildcard mask replaces the settings block, the mask
\* quizSettings.isQuiz sets that one flag
UpdateSettings(form, req) ==
    IF req.updateMask = "*"
    THEN Put(form, "settings", req.settings)
    ELSE LET old == Get(form, "settings", EmptyDict)
             quiz == Get(old, "quizSettings", EmptyDict)
         IN  Put(form, "settings",
                 Put(old, "quizSettings",
                     Put(quiz, "isQuiz", req.settings.quizSettings.isQuiz)))

UpdateFormInfo(form, req) ==
    Put(form, "info", Put(form.info, req.updateMask, req.info[req.updateMask]))

\* the mask path of a question's `required` flag
RequiredPath == "questionItem.question.required"

\* updateItem: the fields the mask names are taken from the request's item
UpdateItem(stored, req) ==
    LET paths == {req.updateMask[i] : i \in DOMAIN req.updateMask}
        fields == paths \ {RequiredPath}
        top == [k \in DOMAIN stored \cup fields |->
                   IF k \in fields THEN req.item[k] ELSE stored[k]]
    IN  IF RequiredPath \in paths
        THEN Put(top, "questionItem",
                 Put(top.questionItem, "question",
                     Put(top.questionItem.question, "required",
                         req.item.questionItem.question.required)))
        ELSE top

\* deleteItem: the item at the index leaves the form
RemoveAt(items, index) ==
    SubSeq(items, 1, index) \o SubSeq(items, index + 2, Len(items))

\* moveItem: the item leaves its place and enters at the new index
MoveItem(items, from, to) ==
    InsertAt(RemoveAt(items, from), to, items[from + 1])

RECURSIVE ApplyRequests(_, _, _)
\* [ok, form, nextId, log]: the form after the requests, or ok = FALSE when
\* a createItem names an index beyond the end of the form, an updateItem,
\* deleteItem or moveItem an index that holds no item, or an updateItem has
\* an empty mask or sets `required` on an item that is no question
ApplyRequests(form, requests, id) ==
    IF requests = <<>>
    THEN [ok |-> TRUE, form |-> form, nextId |-> id, log |-> <<>>]
    ELSE LET r == Head(requests)
         IN  IF Has(r, "createItem")
             THEN LET index == r.createItem.location.index
                      item == r.createItem.item
                      stored == IF Has(item, "itemId") THEN item ELSE Put(item, "itemId", id)
                      rest == ApplyRequests(
                                  Put(form, "items", InsertAt(form.items, index, stored)),
                                  Tail(requests), id + 1)
                  IN  IF index < 0 \/ index > Len(form.items)
                      THEN [ok |-> FALSE, form |-> form, nextId |-> id, log |-> <<>>]
                      ELSE [rest EXCEPT !.log =
                                <<[index |-> index, present |-> Len(form.items)]>> \o @]
             ELSE IF Has(r, "updateItem")
             THEN LET index == r.updateItem.location.index
                  IN  IF \/ index < 0
                         \/ index >= Len(form.items)
                         \/ r.updateItem.updateMask = <<>>
                         \/ /\ \E i \in DOMAIN r.updateItem.updateMask :
                                   r.updateItem.updateMask[i] = RequiredPath
                            /\ ~Has(form.items[index + 1], "questionItem")
                      THEN [ok |-> FALSE, form |-> form, nextId |-> id, log |-> <<>>]
                      ELSE ApplyRequests(
                               Put(form, "items",
                                   [form.items EXCEPT
                                       ![index + 1] = UpdateItem(@, r.updateItem)]),
                               Tail(requests), id)
             ELSE IF Has(r, "deleteItem")
             THEN LET index == r.deleteItem.location.index
                  IN  IF index < 0 \/ index >= Len(form.items)
                      THEN [ok |-> FALSE, form |-> form, nextId |-> id, log |-> <<>>]
                      ELSE ApplyRequests(Put(form, "items", RemoveAt(form.items, index)),
                                         Tail(requests), id)
             ELSE IF Has(r, "moveItem")
             THEN LET from == r.moveItem.originalLocation.index
                      to == r.moveItem.newLocation.index
                  IN  IF from < 0 \/ from >= Len(form.items) \/ to < 0 \/ to >= Len(form.items)
                      THEN [ok |-> FALSE, form |-> form, nextId |-> id, log |-> <<>>]
                      ELSE ApplyRequests(Put(form, "items", MoveItem(form.items, from, to)),
                                         Tail(requests), id)
             ELSE IF Has(r, "updateSettings")
             THEN ApplyRequests(UpdateSettings(form, r.updateSettings), Tail(requests), id)
             ELSE ApplyRequests(UpdateFormInfo(form, r.updateFormInfo), Tail(requests), id)

\* the outcome of one batchUpdate on the destination: `fails` is the remote's
\* choice to answer with an HttpError
BatchUpdate(requests, fails) ==
    LET r == ApplyRequests(dest, requests, nextId)
    IN  IF fails THEN [r EXCEPT !.ok = FALSE] ELSE r

\* the remote's state and the history after that outcome
Commit(requests, out) ==
    /\ dest' = IF out.ok THEN out.form ELSE dest
    /\ nextId' = IF out.ok THEN out.nextId ELSE nextId
    /\ applyLog' = IF out.ok THEN applyLog \o out.log ELSE applyLog
    /\ sent' = Append(sent, [requests |-> requests, ok |-> out.ok])
    /\ calls' = calls + 1

(***************************************************************************)
(* The client: request building.                                          *)
(***************************************************************************)
\* forms.get: the read API leaves out an empty item list
GetResponse(form) == IF form.items = <<>> THEN Pop(form, "items") ELSE form

Items(form) == Get(form, "items", <<>>)

Description(form) == Get(Get(form, "info", EmptyDict), "description", <<>>)

\* the wildcard settings-replace request of both paths
SettingsRequest(form) ==
    LET copy == form.settings
        settings == IF ~Has(copy, "quizSettings")
                    THEN Put(copy, "quizSettings", [isQuiz |-> FALSE])
                    ELSE copy
    IN  [updateSettings |-> [settings |-> settings, updateMask |-> "*"]]

\* a createItem request that numbers the items from 1
CreateItemRequestFromOne(item, index) ==
    [createItem |-> [item |-> _clean_item_for_duplication(item),
                     location |-> [index |-> index + 1]]]

CreateItemRequest(item, index) ==
    [createItem |-> [item |-> _clean_item_for_duplication(item),
                     location |-> [index |-> index]]]

\* a request builder that sends a settings request for every form
BuildBatchRequestsAlwaysSettings(form) ==
    <<[updateSettings |-> [settings |-> Get(form, "settings", EmptyDict), updateMask |-> "*"]]>>
    \o [k \in 1 .. Len(Items(form)) |-> CreateItemRequest(Items(form)[k], k - 1)]

BuildBatchRequests(form) ==
    (IF Has(form, "settings") THEN <<SettingsRequest(form)>> ELSE <<>>)
    \o [k \in 1 .. Len(Items(form)) |-> CreateItemRequest(Items(form)[k], k - 1)]

Min(a, b) == IF a < b THEN a ELSE b

\* len(range(0, n, step)) for step # 0
RangeLen(n, step) == IF step > 0 THEN (n + step - 1) \div step ELSE 0

\* the chunk list of the chunked path; size # 0
Chunks(requests, has_settings, size) ==
    LET settings_chunk == IF has_settings THEN <<requests[1]>> ELSE <<>>
        item_requests == IF has_settings THEN Tail(requests) ELSE requests
        n == Len(item_requests)
    IN  [k \in 1 .. RangeLen(n, size) |->
            LET i == (k - 1) * size
            IN  (IF i = 0 THEN settings_chunk ELSE <<>>)
                \o SubSeq(item_requests, i + 1, Min(i + size, n))]

CreateItemCount(chunk) == Cardinality({k \in DOMAIN chunk : Has(chunk[k], "createItem")})

\* a result that counts the operations of the batch as copied items
BatchResultCountsRequests(requests, copied, n_calls) ==
    [newFormId |-> dest.formId,
     responderUri |-> dest.responderUri,
     editUri |-> <<"https://docs.google.com/forms/d/", dest.formId, "/edit">>,
     copiedItems |-> IF copied = 0 THEN 0 ELSE Len(requests),
     totalItems |-> Len(Items(original)),
     apiCalls |-> n_calls,
     method |-> "batch",
     chunked |-> Len(requests) > chunk_size]

BatchResult(requests, copied, n_calls) ==
    [newFormId |-> dest.formId,
     responderUri |-> dest.responderUri,
     editUri |-> <<"https://docs.google.com/forms/d/", dest.formId, "/edit">>,
     copiedItems |-> copied,
     totalItems |-> Len(Items(original)),
     apiCalls |-> n_calls,
     method |-> "batch",
     chunked |-> Len(requests) > chunk_size]

LegacyResult(copied, n_calls) ==
    [newFormId |-> dest.formId,
     responderUri |-> dest.responderUri,
     editUri |-> <<"https://docs.google.com/forms/d/", dest.formId, "/edit">>,
     copiedItems |-> copied,
     totalItems |-> Len(Items(original)),
     apiCalls |-> n_calls,
     method |-> "legacy"]

(***************************************************************************)
(* Where the client goes after a copy-phase call.                         *)
(***************************************************************************)
\* a chunk loop that logs a failed chunk and goes on
AfterChunkSwallow(ok, last) == IF last THEN "done" ELSE "chunk"

\* the chunk loop: a failed chunk raises
AfterChunk(ok, last) == IF ~ok THEN "raised" ELSE IF last THEN "done" ELSE "chunk"

\* a legacy loop that lets a failed item escape
AfterLegacyItemRaise(ok, last) == IF ~ok THEN "raised" ELSE IF last THEN "done" ELSE "legacy_item"

\* the legacy loop: a failed item is logged and the loop continues
AfterLegacyItem(ok, last) == IF last THEN "done" ELSE "legacy_item"

(***************************************************************************)
(* Initial states: any source form, either path, any chunk_size (the      *)
(* legacy path takes none, so it runs with the default).                  *)
(***************************************************************************)
Init ==
    /\ source \in SourceForms
    /\ use_batch \in BOOLEAN
    /\ chunk_size \in (IF use_batch THEN ChunkSizes ELSE {DefaultChunk})
    /\ dest = EmptyDict
    /\ driveName = <<>>
    /\ nextId = FreshBase
    /\ pc = "get_form"
    /\ original = EmptyDict
    /\ batch_requests = <<>>
    /\ chunks = <<>>
    /\ chunk_idx = 0
    /\ item_i = 0
    /\ api_calls = 0
    /\ total_copied = 0
    /\ copied_count = 0
    /\ result = EmptyDict
    /\ error = "none"
    /\ calls = 0
    /\ sent = <<>>
    /\ applyLog = <<>>
    /\ SanIdle
    /\ PerIdle
    /\ OpsIdle
    /\ TplIdle
    /\ LstIdle

(***************************************************************************)
(* Steps of duplicate_form, one per remote call; each carries the local   *)
(* code that runs up to the next remote call.                             *)
(***************************************************************************)
\* get_form(form_id)
GetForm ==
    /\ pc = "get_form"
    /\ calls' = calls + 1
    /\ \E fails \in BOOLEAN :
        IF fails
        THEN /\ pc' = "raised"
             /\ error' = "get_form"
             /\ UNCHANGED original
        ELSE /\ pc' = "create"
             /\ original' = GetResponse(source)
             /\ UNCHANGED error
    /\ UNCHANGED <<aside, inputs, remote, batch_requests, chunks, chunk_idx, item_i, api_calls,
                   total_copied, copied_count, result, sent, applyLog>>

\* create_form: forms.create with the title alone
FormsCreate ==
    /\ pc = "create"
    /\ calls' = calls + 1
    /\ \E fails \in BOOLEAN :
        IF fails
        THEN /\ pc' = "raised"
             /\ error' = "create_form"
             /\ UNCHANGED <<dest, driveName>>
        ELSE /\ dest' = [formId |-> "new", responderUri |-> "uri-new",
                         info |-> [title |-> new_title], items |-> <<>>]
             /\ driveName' = <<"U">>
             /\ pc' = IF Description(original) # <<>> THEN "describe" ELSE "sync_drive"
             /\ UNCHANGED error
    /\ UNCHANGED <<aside, inputs, nextId, original, batch_requests, chunks, chunk_idx, item_i,
                   api_calls, total_copied, copied_count, result, sent, applyLog>>

DescribeRequests(description) ==
    << [updateFormInfo |-> [info |-> [description |-> description],
                            updateMask |-> "description"]],
       [updateSettings |-> [settings |-> [quizSettings |-> [isQuiz |-> FALSE]],
                            updateMask |-> "quizSettings.isQuiz"]] >>

\* create_form: the batchUpdate that sets the description and the quiz flag
CreateFormBatchUpdate ==
    /\ pc = "describe"
    /\ calls' = calls + 1
    /\ \E fails \in BOOLEAN :
        LET out == BatchUpdate(DescribeRequests(Description(original)), fails)
        IN  IF out.ok
            THEN /\ dest' = out.form
                 /\ pc' = "sync_drive"
                 /\ UNCHANGED error
            ELSE /\ pc' = "raised"
                 /\ error' = "create_form"
                 /\ UNCHANGED dest
    /\ UNCHANGED <<aside, inputs, driveName, nextId, original, batch_requests, chunks, chunk_idx,
                   item_i, api_calls, total_copied, copied_count, result, sent, applyLog>>

\* _duplicate_form_batch from the return of create_form to its first
\* batchUpdate
EnterBatch ==
    LET requests == BuildBatchRequests(original)
        chunked == Chunks(requests, Has(original, "settings"), chunk_size)
    IN  /\ batch_requests' = requests
        /\ api_calls' = 2
        /\ total_copied' = 0
        /\ UNCHANGED <<item_i, copied_count>>
        /\ IF requests = <<>>
           THEN /\ pc' = "done"
                /\ result' = BatchResult(requests, 0, 2)
                /\ UNCHANGED <<chunks, chunk_idx, error>>
           ELSE IF Len(requests) <= chunk_size
           THEN /\ pc' = "single"
                /\ UNCHANGED <<chunks, chunk_idx, result, error>>
           ELSE IF chunk_size = 0
           THEN \* range() with a zero step
                /\ pc' = "raised"
                /\ error' = "ValueError"
                /\ UNCHANGED <<chunks, chunk_idx, result>>
           ELSE /\ chunks' = chunked
                /\ chunk_idx' = 0
                /\ UNCHANGED error
                /\ IF chunked = <<>>
                   THEN /\ pc' = "done"
                        /\ result' = BatchResult(requests, 0, 2)
                   ELSE /\ pc' = "chunk"
                        /\ UNCHANGED result

\* _duplicate_form_legacy from the return of create_form to its first
\* batchUpdate
EnterLegacy ==
    /\ api_calls' = 2
    /\ copied_count' = 0
    /\ item_i' = 0
    /\ UNCHANGED <<batch_requests, chunks, chunk_idx, total_copied, error>>
    /\ IF Has(original, "settings")
       THEN /\ pc' = "legacy_settings"
            /\ UNCHANGED result
       ELSE IF Items(original) = <<>>
       THEN /\ pc' = "done"
            /\ result' = LegacyResult(0, 2)
       ELSE /\ pc' = "legacy_item"
            /\ UNCHANGED result

\* create_form: _sync_drive_name, whose failure is logged, and the return
\* into the duplication path
SyncDriveName ==
    /\ pc = "sync_drive"
    /\ calls' = calls + 1
    /\ \E fails \in BOOLEAN :
        driveName' = IF fails THEN driveName ELSE new_title
    /\ IF use_batch THEN EnterBatch ELSE EnterLegacy
    /\ UNCHANGED <<aside, inputs, dest, nextId, original, sent, applyLog>>

\* the single batched write of _duplicate_form_batch
BatchUpdateSingle ==
    /\ pc = "single"
    /\ \E fails \in BOOLEAN :
        LET out == BatchUpdate(batch_requests, fails)
        IN  /\ Commit(batch_requests, out)
            /\ IF out.ok
               THEN /\ api_calls' = api_calls + 1
                    /\ total_copied' = Len(Items(original))
                    /\ pc' = "done"
                    /\ result' = BatchResult(batch_requests, Len(Items(original)),
                                             api_calls + 1)
                    /\ UNCHANGED error
               ELSE /\ pc' = "raised"
                    /\ error' = "batch"
                    /\ UNCHANGED <<api_calls, total_copied, result>>
    /\ UNCHANGED <<aside, inputs, driveName, original, batch_requests, chunks, chunk_idx, item_i,
                   copied_count>>

\* one turn of the chunk loop of _duplicate_form_batch
BatchUpdateChunk ==
    /\ pc = "chunk"
    /\ \E fails \in BOOLEAN :
        LET chunk == chunks[chunk_idx + 1]
            out == BatchUpdate(chunk, fails)
            last == chunk_idx + 1 = Len(chunks)
            copied == IF out.ok THEN total_copied + CreateItemCount(chunk) ELSE total_copied
            n_calls == IF out.ok THEN api_calls + 1 ELSE api_calls
            next == AfterChunk(out.ok, last)
        IN  /\ Commit(chunk, out)
            /\ api_calls' = n_calls
            /\ total_copied' = copied
            /\ chunk_idx' = chunk_idx + 1
            /\ pc' = next
            /\ error' = IF next = "raised" THEN "chunk" ELSE error
            /\ result' = IF next = "done"
                         THEN BatchResult(batch_requests, copied, n_calls)
                         ELSE result
    /\ UNCHANGED <<aside, inputs, driveName, original, batch_requests, chunks, item_i,
                   copied_count>>

\* the settings call of _duplicate_form_legacy
LegacySettings ==
    /\ pc = "legacy_settings"
    /\ \E fails \in BOOLEAN :
        LET requests == <<SettingsRequest(original)>>
            out == BatchUpdate(requests, fails)
        IN  /\ Commit(requests, out)
            /\ IF out.ok
               THEN /\ api_calls' = api_calls + 1
                    /\ UNCHANGED error
                    /\ IF Items(original) = <<>>
                       THEN /\ pc' = "done"
                            /\ result' = LegacyResult(0, api_calls + 1)
                       ELSE /\ pc' = "legacy_item"
                            /\ UNCHANGED result
               ELSE /\ pc' = "raised"
                    /\ error' = "legacy"
                    /\ UNCHANGED <<api_calls, result>>
    /\ UNCHANGED <<aside, inputs, driveName, original, batch_requests, chunks, chunk_idx, item_i,
                   total_copied, copied_count>>

\* one turn of the item loop of _duplicate_form_legacy
LegacyCreateItem ==
    /\ pc = "legacy_item"
    /\ \E fails \in BOOLEAN :
        LET requests == <<CreateItemRequest(Items(original)[item_i + 1], item_i)>>
            out == BatchUpdate(requests, fails)
            last == item_i + 1 = Len(Items(original))
            copied == IF out.ok THEN copied_count + 1 ELSE copied_count
            n_calls == IF out.ok THEN api_calls + 1 ELSE api_calls
            next == AfterLegacyItem(out.ok, last)
        IN  /\ Commit(requests, out)
            /\ api_calls' = n_calls
            /\ copied_count' = copied
            /\ item_i' = item_i + 1
            /\ pc' = next
            /\ error' = IF next = "raised" THEN "legacy_item" ELSE error
            /\ result' = IF next = "done" THEN LegacyResult(copied, n_calls) ELSE result
    /\ UNCHANGED <<aside, inputs, driveName, original, batch_requests, chunks, chunk_idx,
                   total_copied>>

Next ==
    \/ GetForm
    \/ FormsCreate
    \/ CreateFormBatchUpdate
    \/ SyncDriveName
    \/ BatchUpdateSingle
    \/ BatchUpdateChunk
    \/ LegacySettings
    \/ LegacyCreateItem

Spec == Init /\ [][Next]_vars

(***************************************************************************)
(* The sanitizer on its own: _clean_item_for_duplication applied to any   *)
(* item of SanItems, then once more to the same item object, then to its  *)
(* own output.                                                             *)
(***************************************************************************)
MaxText == 2

Chars == {"a", "\n", "\r"}

Texts == UNION {[1 .. n -> Chars] : n \in 0 .. MaxText}

ChoiceItem(t1, t2) ==
    [itemId |-> 1, title |-> t1,
     questionItem |->
        [question |->
            [questionId |-> 10, required |-> TRUE,
             choiceQuestion |->
                [type |-> "CHECKBOX",
                 options |-> << [value |-> t2], [value |-> <<"y">>], [isOther |-> TRUE] >>]]]]

ScaleItem(t1, t2) ==
    [itemId |-> 1, title |-> <<"s">>,
     questionItem |->
        [question |->
            [questionId |-> 10,
             scaleQuestion |-> [low |-> 1, high |-> 5, lowLabel |-> t1, highLabel |-> t2]]]]

TextQuestionItem(t1, t2) ==
    [itemId |-> 1, title |-> t1, description |-> t2,
     questionItem |->
        [question |-> [questionId |-> 10, textQuestion |-> [paragraph |-> TRUE]],
         image |-> [sourceUri |-> "img"]]]

GridItem(t1, t2) ==
    [itemId |-> 1, title |-> t1,
     questionGroupItem |->
        [questions |-> << [questionId |-> 11, rowQuestion |-> [title |-> t1]],
                          [questionId |-> 12, rowQuestion |-> [title |-> <<"s">>]] >>,
         grid |-> [columns |-> [type |-> "RADIO",
                                options |-> << [value |-> t2], [value |-> t1] >>]]]]

SectionItem(t1, t2) == [itemId |-> 1, title |-> t1, description |-> t2, pageBreakItem |-> EmptyDict]

TextItem(t1, t2) == [itemId |-> 1, title |-> t1, description |-> t2, textItem |-> EmptyDict]

ImageItem(t1, t2) == [itemId |-> 1, title |-> t1, imageItem |-> [image |-> [altText |-> t2]]]

VideoItem(t1, t2) ==
    [itemId |-> 1, title |-> t1,
     videoItem |-> [video |-> [youtubeUri |-> "v"], caption |-> t2]]

\* items that carry none of the item-kind keys the sanitizer knows
OtherItem(t1, t2) == [itemId |-> 1, title |-> t1, description |-> t2, otherItem |-> [note |-> t2]]

BareItems == {[itemId |-> 1, otherItem |-> EmptyDict], [itemId |-> 1]}

SanItems ==
    BareItems \cup
    UNION {{ChoiceItem(t1, t2), ScaleItem(t1, t2), TextQuestionItem(t1, t2), GridItem(t1, t2),
            SectionItem(t1, t2), TextItem(t1, t2), ImageItem(t1, t2), VideoItem(t1, t2),
            OtherItem(t1, t2), Pop(OtherItem(t1, t2), "description")} :
           t1 \in Texts, t2 \in Texts}

\* no duplication run
DupIdle ==
    /\ source = [formId |-> "src", info |-> [title |-> <<"T">>], items |-> <<>>]
    /\ use_batch = FALSE
    /\ chunk_size = DefaultChunk
    /\ dest = EmptyDict
    /\ driveName = <<>>
    /\ nextId = FreshBase
    /\ pc = "idle"
    /\ original = EmptyDict
    /\ batch_requests = <<>>
    /\ chunks = <<>>
    /\ chunk_idx = 0
    /\ item_i = 0
    /\ api_calls = 0
    /\ total_copied = 0
    /\ copied_count = 0
    /\ result = EmptyDict
    /\ error = "none"
    /\ calls = 0
    /\ sent = <<>>
    /\ applyLog = <<>>

SanInit ==
    /\ DupIdle
    /\ PerIdle
    /\ OpsIdle
    /\ TplIdle
    /\ LstIdle
    /\ san_pc = "built"
    /\ san_item \in SanItems
    /\ san_given = san_item
    /\ san_first = EmptyDict
    /\ san_second = EmptyDict
    /\ san_nested = EmptyDict

\* clean = _clean_item_for_duplication(item)
Sanitize ==
    /\ san_pc = "built"
    /\ san_first' = _clean_item_for_duplication(san_item)
    /\ san_item' = CallerItemAfter(san_item)
    /\ san_pc' = "cleaned"
    /\ UNCHANGED <<dupVars, perVars, opsVars, tplVars, lstVars, san_given, san_second, san_nested>>

\* the same call on the same item object
SanitizeAgain ==
    /\ san_pc = "cleaned"
    /\ san_second' = _clean_item_for_duplication(san_item)
    /\ san_item' = CallerItemAfter(san_item)
    /\ san_pc' = "repeated"
    /\ UNCHANGED <<dupVars, perVars, opsVars, tplVars, lstVars, san_given, san_first, san_nested>>

\* _clean_item_for_duplication(clean)
SanitizeOutput ==
    /\ san_pc = "repeated"
    /\ san_nested' = _clean_item_for_duplication(san_first)
    /\ san_pc' = "nested"
    /\ UNCHANGED <<dupVars, perVars, opsVars, tplVars, lstVars, san_item, san_given, san_first, san_second>>

SanNext ==
    \/ Sanitize
    \/ SanitizeAgain
    \/ SanitizeOutput

SanSpec == SanInit /\ [][SanNext]_vars

(***************************************************************************)
(* personalize_form: the forms it runs on.                                *)
(***************************************************************************)
MaxPerItems == 2

\* title and description of an item, with the item kind that carries them
PerShapes ==
    { [title |-> <<"A">>, pageBreakItem |-> EmptyDict],
      [title |-> <<"x", "\n">>, description |-> <<"A", "B">>, textItem |-> EmptyDict],
      [title |-> <<"x", "\n">>, description |-> <<>>, textItem |-> EmptyDict],
      [title |-> <<"B">>, description |-> <<"y">>,
       questionItem |-> [question |-> [required |-> TRUE,
                                       textQuestion |-> [paragraph |-> FALSE]]]] }

PerItemSeqs ==
    UNION {{[k \in 1 .. n |-> WithIds(f[k], k)] : f \in [1 .. n -> PerShapes]} :
           n \in 0 .. MaxPerItems}

PerInfos ==
    { [title |-> <<"A">>],
      [title |-> <<"T">>, description |-> <<"B">>],
      [title |-> <<"T", "\n">>] }

PerForms == {[formId |-> "src", info |-> i, items |-> its] : i \in PerInfos, its \in PerItemSeqs}

\* the (placeholder, replacement) pairs the mappings are made of
Pairs ==
    { << <<"A">>, <<"B">> >>,
      << <<"B">>, <<"C">> >>,
      << <<"A">>, <<"A", " ">> >>,
      << <<"A", "B">>, <<"A">> >> }

\* a dict holds a key once
ReplacementMaps ==
    {<<>>}
    \cup {<<p>> : p \in Pairs}
    \cup {<<pq[1], pq[2]>> : pq \in {x \in Pairs \X Pairs : x[1][1] # x[2][1]}}

(***************************************************************************)
(* personalize_form: what it computes.                                    *)
(***************************************************************************)
RECURSIVE Substitute(_, _)
\* for placeholder, replacement in replacements.items():
\*     text = text.replace(placeholder, replacement)
Substitute(text, pairs) ==
    IF pairs = <<>> THEN text
    ELSE Substitute(ReplaceAll(text, Head(pairs)[1], Head(pairs)[2]), Tail(pairs))

\* .replace('\n', ' ').replace('\r', '').strip()
CleanStrip(s) == Strip(CleanText(s))

FormTitle(f) == Get(Get(f, "info", EmptyDict), "title", <<>>)

NewFormTitle(f, pairs) == Substitute(FormTitle(f), pairs)

NewFormDesc(f, pairs) == Substitute(Description(f), pairs)

\* the test that guards update_form
FormChanged(f, pairs) ==
    NewFormTitle(f, pairs) # FormTitle(f) \/ NewFormDesc(f, pairs) # Description(f)

NewItemTitle(item, pairs) == CleanStrip(Substitute(Get(item, "title", <<>>), pairs))

NewItemDesc(item, pairs) == CleanStrip(Substitute(Get(item, "description", <<>>), pairs))

\* a test that compares the cleaned new text with the text as fetched
ItemChangedRaw(item, pairs) ==
    \/ NewItemTitle(item, pairs) # Get(item, "title", <<>>)
    \/ NewItemDesc(item, pairs) # Get(item, "description", <<>>)

\* the test that guards update_item
ItemChanged(item, pairs) ==
    \/ NewItemTitle(item, pairs) # CleanStrip(Get(item, "title", <<>>))
    \/ NewItemDesc(item, pairs) # CleanStrip(Get(item, "description", <<>>))

\* update_kwargs: the description goes along when the item has a non-empty one
UpdateKwargs(item, pairs) ==
    IF Get(item, "description", <<>>) # <<>>
    THEN [title |-> NewItemTitle(item, pairs), description |-> NewItemDesc(item, pairs)]
    ELSE [title |-> NewItemTitle(item, pairs)]

\* update_form(title, description), both given
UpdateFormRequests(title, description) ==
    << [updateFormInfo |-> [info |-> [title |-> title], updateMask |-> "title"]],
       [updateFormInfo |-> [info |-> [description |-> description],
                            updateMask |-> "description"]] >>

\* update_item's search of the item by its id: the 0-based index, -1 when
\* no item has the id
IndexOf(items, item_id) ==
    IF \E k \in DOMAIN items : Get(items[k], "itemId", 0) = item_id
    THEN (CHOOSE k \in DOMAIN items :
              /\ Get(items[k], "itemId", 0) = item_id
              /\ \A j \in 1 .. k - 1 : Get(items[j], "itemId", 0) # item_id) - 1
    ELSE -1

\* a copy of the item that loses its itemId alone
WithoutItemId(item) == Pop(item, "itemId")

\* update_item's copy of the item it found, without its identifiers
WithoutIds(item) ==
    LET it == Pop(item, "itemId")
        q1 == IF Has(it, "questionItem") /\ Has(it.questionItem, "question")
              THEN Put(it, "questionItem",
                       Put(it.questionItem, "question",
                           Pop(it.questionItem.question, "questionId")))
              ELSE it
    IN  IF Has(q1, "questionGroupItem") /\ Has(q1.questionGroupItem, "questions")
        THEN Put(q1, "questionGroupItem",
                 Put(q1.questionGroupItem, "questions",
                     [j \in DOMAIN q1.questionGroupItem.questions |->
                         Pop(q1.questionGroupItem.questions[j], "questionId")]))
        ELSE q1

\* update_item's request for an item found at item_index; the update mask
\* is kept as the list of its field names
UpdateItemRequest(original_item, item_index, kwargs) ==
    LET u0 == WithoutIds(original_item)
        u1 == IF Has(kwargs, "title") THEN Put(u0, "title", kwargs.title) ELSE u0
        u2 == IF Has(kwargs, "description")
              THEN Put(u1, "description", kwargs.description) ELSE u1
        required == Has(kwargs, "required") /\ Has(u2, "questionItem")
        u3 == IF required
              THEN Put(u2, "questionItem",
                       Put(u2.questionItem, "question",
                           Put(u2.questionItem.question, "required", kwargs.required)))
              ELSE u2
        update_mask == (IF Has(kwargs, "title") THEN <<"title">> ELSE <<>>)
                       \o (IF Has(kwargs, "description") THEN <<"description">> ELSE <<>>)
                       \o (IF required THEN <<RequiredPath>> ELSE <<>>)
    IN  [updateItem |-> [item |-> u3,
                         location |-> [index |-> item_index],
                         updateMask |-> update_mask]]

\* the length to which an update note cuts the new title
NoteLen == 40

\* f"Updated: {new_item_title[:40]}..."
UpdateNote(title) == <<"Updated: ", SubSeq(title, 1, Min(NoteLen, Len(title))), "...">>

FormNote == <<"Form title/description updated">>

PersonalizeResult(f, n_updated, notes) ==
    [formId |-> "src",
     itemsUpdated |-> n_updated,
     totalItems |-> Len(Items(f)),
     updates |-> notes]

\* an item loop that lets a failed update escape
AfterUpdateItemRaise(ok, last) == IF ~ok THEN "raised" ELSE IF last THEN "done" ELSE "item"

\* the item loop: a failed update is logged and the loop goes on
AfterUpdateItem(ok, last) == IF last THEN "done" ELSE "item"

PerInit ==
    /\ DupIdle
    /\ SanIdle
    /\ OpsIdle
    /\ TplIdle
    /\ LstIdle
    /\ per_pc = "get_form"
    /\ per_form \in PerForms
    /\ per_drive = FormTitle(per_form)
    /\ replacements \in ReplacementMaps
    /\ fetched = EmptyDict
    /\ per_i = 0
    /\ items_updated = 0
    /\ updates_made = <<>>
    /\ per_result = EmptyDict
    /\ per_error = "none"
    /\ per_log = <<>>

\* the code between update_form (or the fetch) and the first turn of the
\* item loop, or the return when the form has no item
EnterItems(f, notes) ==
    /\ per_i' = 0
    /\ items_updated' = 0
    /\ updates_made' = notes
    /\ IF Items(f) = <<>>
       THEN /\ per_pc' = "done"
            /\ per_result' = PersonalizeResult(f, 0, notes)
       ELSE /\ per_pc' = "item"
            /\ UNCHANGED per_result

\* form = self.get_form(form_id), and the substitution in the form's title
\* and description
PersonalizeGetForm ==
    /\ per_pc = "get_form"
    /\ \E fails \in BOOLEAN :
        IF fails
        THEN /\ per_pc' = "raised"
             /\ per_error' = "get_form"
             /\ UNCHANGED <<fetched, per_i, items_updated, updates_made, per_result>>
        ELSE LET f == GetResponse(per_form)
             IN  /\ fetched' = f
                 /\ UNCHANGED per_error
                 /\ IF FormChanged(f, replacements)
                    THEN /\ per_pc' = "update_form"
                         /\ UNCHANGED <<per_i, items_updated, updates_made, per_result>>
                    ELSE EnterItems(f, <<>>)
    /\ UNCHANGED <<dupVars, sanVars, opsVars, tplVars, lstVars, per_form, per_drive, replacements, per_log>>

\* self.update_form(form_id, title=new_title, description=new_desc): the
\* batchUpdate, the Drive name sync, whose failure is logged, and the
\* get_form of its return
PersonalizeUpdateForm ==
    /\ per_pc = "update_form"
    /\ \E outcome \in {"ok", "write_fails", "sync_fails", "get_fails"} :
        LET title == NewFormTitle(fetched, replacements)
            description == NewFormDesc(fetched, replacements)
            requests == UpdateFormRequests(title, description)
            out == ApplyRequests(per_form, requests, 0)
            ok == outcome # "write_fails" /\ out.ok
            issued == IF ~ok THEN <<"forms.batchUpdate">>
                      ELSE <<"forms.batchUpdate", "files.update", "forms.get">>
        IN  /\ per_form' = IF ok THEN out.form ELSE per_form
            /\ per_drive' = IF ok /\ outcome # "sync_fails" THEN title ELSE per_drive
            /\ per_log' = Append(per_log, [op |-> "update_form", requests |-> requests,
                                           issued |-> issued, ok |-> ok])
            /\ IF ok /\ outcome # "get_fails"
               THEN /\ UNCHANGED per_error
                    /\ EnterItems(fetched, <<FormNote>>)
               ELSE /\ per_pc' = "raised"
                    /\ per_error' = IF ok THEN "get_form" ELSE "update_form"
                    /\ UNCHANGED <<per_i, items_updated, updates_made, per_result>>
    /\ UNCHANGED <<dupVars, sanVars, opsVars, tplVars, lstVars, replacements, fetched>>

\* one turn of the item loop: the substitution in the item's title and
\* description, and update_item (its get_form, its search, its batchUpdate)
\* when they changed
PersonalizeItem ==
    /\ per_pc = "item"
    /\ LET item == Items(fetched)[per_i + 1]
           item_id == Get(item, "itemId", 0)
           last == per_i + 1 = Len(Items(fetched))
       IN  IF ~ItemChanged(item, replacements)
           THEN /\ per_pc' = IF last THEN "done" ELSE "item"
                /\ per_result' = IF last
                                  THEN PersonalizeResult(fetched, items_updated, updates_made)
                                  ELSE per_result
                /\ UNCHANGED <<per_form, items_updated, updates_made, per_error, per_log>>
           ELSE \E outcome \in {"ok", "get_fails", "write_fails"} :
                LET kwargs == UpdateKwargs(item, replacements)
                    current == Items(GetResponse(per_form))
                    item_index == IndexOf(current, item_id)
                    found == outcome # "get_fails" /\ item_index >= 0
                    requests == IF found
                                THEN <<UpdateItemRequest(current[item_index + 1],
                                                         item_index, kwargs)>>
                                ELSE <<>>
                    out == ApplyRequests(per_form, requests, 0)
                    ok == found /\ outcome = "ok" /\ out.ok
                    issued == IF found THEN <<"forms.get", "forms.batchUpdate">>
                              ELSE <<"forms.get">>
                    n_updated == IF ok THEN items_updated + 1 ELSE items_updated
                    notes == IF ok THEN Append(updates_made, UpdateNote(kwargs.title))
                             ELSE updates_made
                    next == AfterUpdateItem(ok, last)
                IN  /\ per_form' = IF ok THEN out.form ELSE per_form
                    /\ per_log' = Append(per_log, [op |-> "update_item", item_id |-> item_id,
                                                   kwargs |-> kwargs, requests |-> requests,
                                                   issued |-> issued, ok |-> ok])
                    /\ items_updated' = n_updated
                    /\ updates_made' = notes
                    /\ per_pc' = next
                    /\ per_error' = IF next = "raised" THEN "update_item" ELSE per_error
                    /\ per_result' = IF next = "done"
                                      THEN PersonalizeResult(fetched, n_updated, notes)
                                      ELSE per_result
    /\ per_i' = per_i + 1
    /\ UNCHANGED <<dupVars, sanVars, opsVars, tplVars, lstVars, per_drive, replacements, fetched>>

PerNext ==
    \/ PersonalizeGetForm
    \/ PersonalizeUpdateForm
    \/ PersonalizeItem

PerSpec == PerInit /\ [][PerNext]_vars

(***************************************************************************)
(* Vocabulary of the properties.                                          *)
(***************************************************************************)
M == Len(source.items)

HasSettings == IF Has(source, "settings") THEN 1 ELSE 0

\* the item-kind keys an item carries
KindKeys(item) == DOMAIN item \ {"itemId", "title", "description"}

Title(item) == Get(item, "title", <<>>)

RECURSIVE Flatten(_)
Flatten(batches) ==
    IF batches = <<>> THEN <<>> ELSE Head(batches).requests \o Flatten(Tail(batches))

\* every request submitted in the copy phase, in submission order
Submitted == Flatten(sent)

\* the createItem payloads submitted in the copy phase, in submission order
SubmittedItems == SelectSeq(Submitted, LAMBDA r : Has(r, "createItem"))

CeilDiv(a, b) == (a + b - 1) \div b

SourceItemIds == {source.items[k].itemId : k \in DOMAIN source.items}

DestItemIds == IF dest = EmptyDict THEN {} ELSE {dest.items[k].itemId : k \in DOMAIN dest.items}

\* no identifier anywhere in an item payload
NoIds(item) ==
    /\ ~Has(item, "itemId")
    /\ Has(item, "questionItem") => ~Has(item.questionItem.question, "questionId")
    /\ Has(item, "questionGroupItem") =>
          \A j \in DOMAIN item.questionGroupItem.questions :
              ~Has(item.questionGroupItem.questions[j], "questionId")

(***************************************************************************)
(* C1. Order preservation: when batch duplication returns a result, the   *)
(* destination has exactly as many items as the source and, at each       *)
(* position, an item of the same item-kind and title as the source item.  *)
(***************************************************************************)
C1_OrderPreservation ==
    (use_batch /\ pc = "done") =>
        /\ Len(dest.items) = M
        /\ \A k \in 1 .. M :
              /\ KindKeys(dest.items[k]) = KindKeys(source.items[k])
              /\ Title(dest.items[k]) = Title(source.items[k])

(***************************************************************************)
(* C2. Identifier freshness: the sanitized payload of every source item   *)
(* carries no itemId and no questionId (root question or grid             *)
(* sub-question), no createItem submitted by a duplication run, on either *)
(* path, carries one, and the destination's item identifiers are disjoint *)
(* from the source's.                                                      *)
(***************************************************************************)
C2_IdentifierFreshness ==
    /\ \A k \in DOMAIN source.items : NoIds(_clean_item_for_duplication(source.items[k]))
    /\ \A k \in DOMAIN SubmittedItems : NoIds(SubmittedItems[k].createItem.item)
    /\ DestItemIds \cap SourceItemIds = {}

\* a run has committed a question item and a grid item of the source
C2_Witness ==
    /\ pc = "done"
    /\ \E k \in DOMAIN dest.items : Has(dest.items[k], "questionItem")
    /\ \E k \in DOMAIN dest.items : Has(dest.items[k], "questionGroupItem")
    /\ \E k \in DOMAIN source.items :
          Has(source.items[k], "questionItem")
          /\ Has(source.items[k].questionItem.question, "questionId")

(***************************************************************************)
(* C3. Chunk-count correctness: with chunkSize >= 1 and no remote         *)
(* failure, a batch duplication of a source with M items issues exactly   *)
(* ceil((M + has_settings) / chunkSize) batched write calls.              *)
(***************************************************************************)
C3_ChunkCount ==
    (use_batch /\ pc = "done" /\ chunk_size >= 1) =>
        Len(sent) = CeilDiv(M + HasSettings, chunk_size)

(***************************************************************************)
(* C4. Chunk size bound: in chunked batch duplication every batched write *)
(* call carries at most chunkSize operations, the first call with its     *)
(* settings-replace operation included.                                   *)
(***************************************************************************)
C4_ChunkSizeBound ==
    (use_batch /\ Len(batch_requests) > chunk_size) =>
        \A k \in DOMAIN sent : Len(sent[k].requests) <= chunk_size

(***************************************************************************)
(* C5. Index accounting in the batched path: the createItem operations    *)
(* are submitted in source order with indices 0, 1, 2, ... and each       *)
(* createItem the remote applies, within a call and across chunks, has    *)
(* as its index the number of items then present in the destination.      *)
(***************************************************************************)
C5_IndexAccounting ==
    use_batch =>
        /\ \A j \in DOMAIN SubmittedItems :
              /\ SubmittedItems[j].createItem.location.index = j - 1
              /\ SubmittedItems[j].createItem.item
                    = _clean_item_for_duplication(source.items[j])
        /\ \A j \in DOMAIN applyLog : applyLog[j].index = applyLog[j].present

\* the remote has applied createItem operations of a second chunk
C5_Witness ==
    /\ use_batch
    /\ pc = "done"
    /\ Len(sent) >= 2
    /\ Len(applyLog) = M
    /\ M >= 3

(***************************************************************************)
(* C6. In chunked batch duplication a failed chunk is the last call of    *)
(* the run: no later chunk is submitted, the failed chunk is not          *)
(* submitted again, and no operation is sent twice.                       *)
(***************************************************************************)
C6_FailedChunkAborts ==
    use_batch =>
        /\ \A k \in DOMAIN sent : ~sent[k].ok => k = Len(sent)
        /\ \A i, j \in DOMAIN Submitted : i # j => Submitted[i] # Submitted[j]
        /\ (\E k \in DOMAIN sent : ~sent[k].ok) => pc = "raised"

\* a chunk other than the first has failed while chunks remained
C6_Witness ==
    /\ use_batch
    /\ Len(sent) >= 2
    /\ ~sent[Len(sent)].ok
    /\ Len(sent) < Len(chunks)

\* a copy-phase batchUpdate of the run has failed
CopyCallFailed == \E k \in DOMAIN sent : ~sent[k].ok

\* the createItem operations of the copy-phase calls that succeeded
CommittedItems ==
    Len(SelectSeq(Flatten(SelectSeq(sent, LAMBDA b : b.ok)),
                  LAMBDA r : Has(r, "createItem")))

ItemCalls == SelectSeq(sent, LAMBDA b : Has(b.requests[1], "createItem"))

(***************************************************************************)
(* C8. Sequential fallback fault isolation: on the legacy path, whichever *)
(* item-creation calls fail, every source item is attempted exactly once  *)
(* in source order, no item failure raises, and the result's copiedItems  *)
(* is the number of item-creation calls that succeeded.                   *)
(***************************************************************************)
C8_LegacyFaultIsolation ==
    ~use_batch =>
        /\ Len(ItemCalls) = item_i
        /\ \A j \in DOMAIN ItemCalls :
              /\ Len(ItemCalls[j].requests) = 1
              /\ ItemCalls[j].requests[1].createItem.item
                    = _clean_item_for_duplication(source.items[j])
        /\ pc = "raised" => (ItemCalls = <<>> /\ error # "legacy_item")
        /\ pc = "legacy_item" => item_i < M
        /\ pc = "done" =>
              /\ Len(ItemCalls) = M
              /\ result.copiedItems = Cardinality({j \in DOMAIN ItemCalls : ItemCalls[j].ok})
              /\ result.totalItems = M

\* a legacy run has returned after an item call failed behind one that
\* succeeded
C8_Witness ==
    /\ ~use_batch
    /\ pc = "done"
    /\ M >= 3
    /\ ItemCalls[1].ok
    /\ ~ItemCalls[2].ok
    /\ result.copiedItems = 1

\* the destination both paths are to produce from the source
ExpectedItems == [k \in 1 .. M |-> _clean_item_for_duplication(source.items[k])]

ExpectedSettings ==
    IF Has(source, "settings") THEN SettingsRequest(source).updateSettings.settings
    ELSE IF Description(source) # <<>> THEN [quizSettings |-> [isQuiz |-> FALSE]]
    ELSE EmptyDict

(***************************************************************************)
(* C9. Path equivalence: when no remote call fails, the batched path and  *)
(* the legacy path leave the same destination, the one settings block and *)
(* the one item sequence the source determines (same payloads at the same *)
(* positions), and both report copiedItems = totalItems.                  *)
(***************************************************************************)
C9_PathEquivalence ==
    (pc = "done" /\ ~CopyCallFailed) =>
        /\ [k \in DOMAIN dest.items |-> Pop(dest.items[k], "itemId")] = ExpectedItems
        /\ Get(dest, "settings", EmptyDict) = ExpectedSettings
        /\ result.copiedItems = result.totalItems

(***************************************************************************)
(* C10. If duplication fails at the source fetch or while creating the    *)
(* destination (the description/settings call of create_form included),   *)
(* no destination form exists on the remote after the error is raised.    *)
(***************************************************************************)
C10_NoDestinationAfterFatal ==
    (pc = "raised" /\ error \in {"get_form", "create_form"}) => dest = EmptyDict

C12_SingleBatchCalls ==
    (use_batch /\ pc = "done" /\ M >= 1 /\ M + HasSettings <= chunk_size) =>
        /\ Len(sent) = 1
        /\ sent[1].ok
        /\ result.apiCalls = 3
        /\ result.copiedItems = M
        /\ result.totalItems = M
        /\ ~result.chunked

\* a source of two items and a settings block went out as one batch
C12_Witness ==
    /\ use_batch
    /\ pc = "done"
    /\ M = 2
    /\ HasSettings = 1
    /\ chunk_size = 3
    /\ Len(sent) = 1
    /\ Len(sent[1].requests) = 3

(***************************************************************************)
(* C13. apiCalls is exact: in a returned result, on either path, apiCalls *)
(* is the number of remote calls the run issued, the form create, the     *)
(* description/settings update and the Drive name update of create_form   *)
(* included.                                                               *)
(***************************************************************************)
C13_ApiCallsExact ==
    pc = "done" => result.apiCalls = calls

\* a text with every carriage return dropped and every line feed turned
\* into one space
Normalized(s) ==
    LET kept == SelectSeq(s, LAMBDA c : c # "\r")
    IN  [i \in DOMAIN kept |-> IF kept[i] = "\n" THEN " " ELSE kept[i]]

\* the sanitizer has returned from its first call
Sanitized == san_pc \in {"cleaned", "repeated", "nested"}

(***************************************************************************)
(* C14. Idempotent sanitization: the sanitizer applied to its own output  *)
(* returns that output: same item-kind payload, same title, same          *)
(* description.                                                            *)
(***************************************************************************)
C14_IdempotentSanitization ==
    san_pc = "nested" => san_nested = san_first

\* the sanitizer has run on its own output for a question item whose first
\* pass dropped an identifier and rewrote a line break
C14_Witness ==
    /\ san_pc = "nested"
    /\ Has(san_given, "questionItem")
    /\ Has(san_given.questionItem.question, "choiceQuestion")
    /\ HasNewline(san_given.title)
    /\ HasNewline(san_given.questionItem.question.choiceQuestion.options[1].value)
    /\ san_first.title # san_given.title

\* the options of `out` are those of `given`, in order, each value normalized
OptionsNormalized(given, out) ==
    /\ Len(out) = Len(given)
    /\ \A i \in DOMAIN given :
          IF Has(given[i], "value")
          THEN /\ out[i] = Put(given[i], "value", Normalized(given[i].value))
               /\ ~HasNewline(out[i].value)
          ELSE out[i] = given[i]

(***************************************************************************)
(* C15. Newline elimination: in the sanitizer's output the title, the     *)
(* description, a scale question's lowLabel and highLabel, every choice   *)
(* option value and every grid column option value are the input's with   *)
(* each line feed replaced by one space and each carriage return removed, *)
(* so none holds LF or CR; the options keep their number and order.       *)
(***************************************************************************)
C15_NewlineElimination ==
    Sanitized =>
        /\ \A k \in {"title", "description"} :
              Has(san_given, k) =>
                  /\ Has(san_first, k)
                  /\ san_first[k] = Normalized(san_given[k])
                  /\ ~HasNewline(san_first[k])
        /\ (Has(san_given, "questionItem")
            /\ Has(san_given.questionItem.question, "scaleQuestion")) =>
              \A k \in {"lowLabel", "highLabel"} :
                  Has(san_given.questionItem.question.scaleQuestion, k) =>
                      /\ san_first.questionItem.question.scaleQuestion[k]
                            = Normalized(san_given.questionItem.question.scaleQuestion[k])
                      /\ ~HasNewline(san_first.questionItem.question.scaleQuestion[k])
        /\ (Has(san_given, "questionItem")
            /\ Has(san_given.questionItem.question, "choiceQuestion")) =>
              OptionsNormalized(san_given.questionItem.question.choiceQuestion.options,
                                san_first.questionItem.question.choiceQuestion.options)
        /\ Has(san_given, "questionGroupItem") =>
              OptionsNormalized(san_given.questionGroupItem.grid.columns.options,
                                san_first.questionGroupItem.grid.columns.options)

\* the sanitizer has returned a scale question whose labels held a line feed
\* and a carriage return
C15_Witness ==
    /\ Sanitized
    /\ Has(san_given, "questionItem")
    /\ Has(san_given.questionItem.question, "scaleQuestion")
    /\ san_given.questionItem.question.scaleQuestion.lowLabel = <<"a", "\n">>
    /\ san_given.questionItem.question.scaleQuestion.highLabel = <<"\r", "a">>
    /\ san_first.questionItem.question.scaleQuestion.highLabel = <<"a">>

\* the item-kind keys the sanitizer knows
KnownKinds ==
    {"questionItem", "questionGroupItem", "pageBreakItem", "textItem", "imageItem", "videoItem"}

(***************************************************************************)
(* C16. Graceful degradation: when the source holds an item that carries  *)
(* none of the known item-kind keys, a duplication that returns has       *)
(* submitted a createItem for that item, its payload holding only the     *)
(* title and description that were present, and one for every other item. *)
(***************************************************************************)
C16_GracefulDegradation ==
    (pc = "done" /\ \E k \in 1 .. M : KindKeys(source.items[k]) \cap KnownKinds = {}) =>
        /\ Len(SubmittedItems) = M
        /\ \A k \in 1 .. M :
              KindKeys(source.items[k]) \cap KnownKinds = {} =>
                  DOMAIN SubmittedItems[k].createItem.item
                      = DOMAIN source.items[k] \cap {"title", "description"}

RECURSIVE PassOne(_, _, _)
\* one pair applied to a text whose characters carry a mark: an occurrence
\* of `old` made of unmarked characters becomes `new`, marked
PassOne(ms, old, new) ==
    IF ms = <<>> THEN <<>>
    ELSE IF /\ Len(old) <= Len(ms)
            /\ \A j \in 1 .. Len(old) : ms[j].c = old[j] /\ ~ms[j].inserted
    THEN [j \in DOMAIN new |-> [c |-> new[j], inserted |-> TRUE]]
         \o PassOne(SubSeq(ms, Len(old) + 1, Len(ms)), old, new)
    ELSE <<Head(ms)>> \o PassOne(Tail(ms), old, new)

RECURSIVE PassAll(_, _)
PassAll(ms, pairs) ==
    IF pairs = <<>> THEN ms
    ELSE PassAll(PassOne(ms, Head(pairs)[1], Head(pairs)[2]), Tail(pairs))

\* the pairs applied in mapping order, a later pair never matching text an
\* earlier pair inserted
SinglePass(text, pairs) ==
    LET out == PassAll([i \in DOMAIN text |-> [c |-> text[i], inserted |-> FALSE]], pairs)
    IN  [i \in DOMAIN out |-> out[i].c]

\* the item of the fetched form with the given id
FetchedItem(item_id) ==
    Items(fetched)[CHOOSE k \in DOMAIN Items(fetched) : Items(fetched)[k].itemId = item_id]

(***************************************************************************)
(* C18. Personalization is a single-pass substitution: every text a run   *)
(* writes (form title and description, item title and description) is     *)
(* the fetched text with the pairs applied in mapping order, text that an *)
(* earlier pair inserted not being replaced by a later pair; the mapping  *)
(* {"A": "B", "B": "C"} applied to "A" yields "B", not "C".               *)
(***************************************************************************)
C18_SinglePassSubstitution ==
    \A k \in DOMAIN per_log :
        IF per_log[k].op = "update_form"
        THEN /\ per_log[k].requests[1].updateFormInfo.info.title
                    = SinglePass(FormTitle(fetched), replacements)
             /\ per_log[k].requests[2].updateFormInfo.info.description
                    = SinglePass(Description(fetched), replacements)
        ELSE LET item == FetchedItem(per_log[k].item_id)
             IN  /\ per_log[k].kwargs.title
                        = CleanStrip(SinglePass(Get(item, "title", <<>>), replacements))
                 /\ Has(per_log[k].kwargs, "description") =>
                        per_log[k].kwargs.description
                            = CleanStrip(SinglePass(item.description, replacements))

\* the update_item calls of the run, in call order
ItemUpdates == SelectSeq(per_log, LAMBDA e : e.op = "update_item")

\* the ids of the fetched items whose text the substitution changes, in
\* form order
ChangedIds ==
    LET changed == SelectSeq(Items(fetched), LAMBDA it : ItemChanged(it, replacements))
    IN  [k \in DOMAIN changed |-> changed[k].itemId]

(***************************************************************************)
(* C19. Personalization fault isolation: whichever per-item update calls  *)
(* fail, no item failure raises, every changed item's update is attempted *)
(* once in form order, personalization returns a result, itemsUpdated is  *)
(* the number of per-item calls that succeeded, and                       *)
(* itemsUpdated <= totalItems.                                            *)
(***************************************************************************)
C19_PersonalizationFaultIsolation ==
    per_pc # "idle" =>
        /\ per_pc = "raised" => (per_error \in {"get_form", "update_form"} /\ ItemUpdates = <<>>)
        /\ per_pc = "item" => per_i < Len(Items(fetched))
        /\ per_pc = "done" =>
              /\ [k \in DOMAIN ItemUpdates |-> ItemUpdates[k].item_id] = ChangedIds
              /\ per_result.itemsUpdated
                    = Cardinality({k \in DOMAIN ItemUpdates : ItemUpdates[k].ok})
              /\ per_result.itemsUpdated <= per_result.totalItems
              /\ per_result.totalItems = Len(per_form.items)

\* a run has returned after the update of its first changed item failed and
\* the update of its second succeeded
C19_Witness ==
    /\ per_pc = "done"
    /\ Len(ItemUpdates) = 2
    /\ ~ItemUpdates[1].ok
    /\ ItemUpdates[2].ok
    /\ per_result.itemsUpdated = 1
    /\ per_result.totalItems = 2

\* the update_item calls made for the item with the given id
UpdatesOf(item_id) ==
    Cardinality({k \in DOMAIN ItemUpdates : ItemUpdates[k].item_id = item_id})

FormUpdates == SelectSeq(per_log, LAMBDA e : e.op = "update_form")

\* title or description after substitution differs from the original once
\* both are newline-normalized
NormChanged(item) ==
    \E k \in {"title", "description"} :
        Normalized(Substitute(Get(item, k, <<>>), replacements))
            # Normalized(Get(item, k, <<>>))

\* the same, both sides stripped of leading and trailing whitespace as well
NormStripChanged(item) ==
    \E k \in {"title", "description"} :
        Strip(Normalized(Substitute(Get(item, k, <<>>), replacements)))
            # Strip(Normalized(Get(item, k, <<>>)))

Occurs(p, s) == \E i \in 1 .. Len(s) - Len(p) + 1 : SubSeq(s, i, i + Len(p) - 1) = p

\* no title or description of the fetched form or of its items holds a
\* placeholder of the mapping
NoPlaceholder ==
    \A j \in DOMAIN replacements :
        /\ ~Occurs(replacements[j][1], FormTitle(fetched))
        /\ ~Occurs(replacements[j][1], Description(fetched))
        /\ \A k \in DOMAIN Items(fetched) :
              /\ ~Occurs(replacements[j][1], Get(Items(fetched)[k], "title", <<>>))
              /\ ~Occurs(replacements[j][1], Get(Items(fetched)[k], "description", <<>>))

\* the form-level update is made at most once, and only when the form's
\* title or description changed; a form without placeholder gets no call
FormLevelNoWaste ==
    /\ Len(FormUpdates) <= 1
    /\ FormUpdates # <<>> =>
          \/ Substitute(FormTitle(fetched), replacements) # FormTitle(fetched)
          \/ Substitute(Description(fetched), replacements) # Description(fetched)
    /\ (fetched # EmptyDict /\ NoPlaceholder) => per_log = <<>>

(***************************************************************************)
(* C20, as claimed.  No wasted call: an item update is issued exactly     *)
(* when the item's title or description after substitution differs from   *)
(* the original once both are newline-normalized, and at most once per    *)
(* item; the form-level update is issued only if the form title or        *)
(* description changed; a form in which no field holds a placeholder      *)
(* receives no write call at all.                                         *)
(***************************************************************************)
C20_NoWastedCall ==
    /\ FormLevelNoWaste
    /\ \A k \in DOMAIN Items(fetched) :
          LET item == Items(fetched)[k]
          IN  /\ UpdatesOf(item.itemId) <= 1
              /\ UpdatesOf(item.itemId) = 1 => NormChanged(item)
              /\ (per_pc = "done" /\ NormChanged(item)) => UpdatesOf(item.itemId) = 1

(***************************************************************************)
(* C20, amended.  An item update is issued exactly when the item's title  *)
(* or description after substitution differs from the original once both *)
(* are newline-normalized and stripped of leading and trailing            *)
(* whitespace, and at most once per item; the form-level update is issued *)
(* only if the form title or description changed; a form in which no      *)
(* field holds a placeholder receives no write call at all.               *)
(***************************************************************************)
C20_NoWastedCallStripped ==
    /\ FormLevelNoWaste
    /\ \A k \in DOMAIN Items(fetched) :
          LET item == Items(fetched)[k]
          IN  /\ UpdatesOf(item.itemId) <= 1
              /\ UpdatesOf(item.itemId) = 1 => NormStripChanged(item)
              /\ (per_pc = "done" /\ NormStripChanged(item)) => UpdatesOf(item.itemId) = 1

\* a run has returned having updated one item and passed over an item
\* with a line feed in its title and no placeholder
C20_Witness ==
    /\ per_pc = "done"
    /\ Len(Items(fetched)) = 2
    /\ UpdatesOf(1) = 1
    /\ UpdatesOf(2) = 0
    /\ HasNewline(Items(fetched)[2].title)
    /\ FormUpdates = <<>>

(***************************************************************************)
(* C22. Every wildcard settings-replace operation a duplication submits,  *)
(* on either path, carries settings in which quizSettings.isQuiz is       *)
(* explicitly present, for every shape of the source settings block.      *)
(***************************************************************************)
C22_ExplicitQuizFlag ==
    \A k \in DOMAIN Submitted :
        (Has(Submitted[k], "updateSettings") /\ Submitted[k].updateSettings.updateMask = "*") =>
            /\ Has(Submitted[k].updateSettings.settings, "quizSettings")
            /\ Has(Submitted[k].updateSettings.settings.quizSettings, "isQuiz")

(***************************************************************************)
(* C27. On the legacy path, whichever item calls fail, every createItem   *)
(* call is submitted with an index that does not exceed the number of     *)
(* items the destination holds at that moment.                            *)
(***************************************************************************)
C27_LegacyIndexValid ==
    ~use_batch =>
        \A j \in DOMAIN ItemCalls :
            ItemCalls[j].requests[1].createItem.location.index
                <= Cardinality({i \in 1 .. j - 1 : ItemCalls[i].ok})

(***************************************************************************)
(* C28. With chunkSize >= 1, the chunked flag of a returned batch         *)
(* duplication result is true if and only if the run issued more than one *)
(* batched write call.                                                     *)
(***************************************************************************)
C28_ChunkedFlag ==
    (use_batch /\ pc = "done" /\ chunk_size >= 1) =>
        (result.chunked <=> Len(sent) > 1)

(***************************************************************************)
(* C29. Whenever batch duplication returns a result, for every integer    *)
(* chunk_size, zero and negative included, copiedItems = totalItems and a *)
(* createItem for every source item was committed to the destination.     *)
(***************************************************************************)
C29_ReturnedMeansCopied ==
    (use_batch /\ pc = "done") =>
        /\ result.copiedItems = result.totalItems
        /\ CommittedItems = M
        /\ Len(dest.items) = M

\* the texts among the values of an option list, each with its path
OptionTexts(path, options) ==
    {<<path, i, options[i].value>> : i \in {j \in DOMAIN options : Has(options[j], "value")}}

\* every text inside an item payload, each with the path that leads to it
TextsOf(item) ==
    LET question == IF Has(item, "questionItem") THEN item.questionItem.question ELSE EmptyDict
        group == Get(item, "questionGroupItem", EmptyDict)
    IN  {<<k, 0, item[k]>> : k \in DOMAIN item \cap {"title", "description"}}
        \cup (IF Has(question, "scaleQuestion")
              THEN {<<k, 0, question.scaleQuestion[k]>> :
                        k \in DOMAIN question.scaleQuestion \cap {"lowLabel", "highLabel"}}
              ELSE {})
        \cup (IF Has(question, "choiceQuestion") /\ Has(question.choiceQuestion, "options")
              THEN OptionTexts("choiceQuestion.options", question.choiceQuestion.options)
              ELSE {})
        \cup (IF Has(group, "questions")
              THEN {<<"questions.rowQuestion.title", j, group.questions[j].rowQuestion.title>> :
                        j \in DOMAIN group.questions}
              ELSE {})
        \cup (IF Has(group, "grid")
              THEN OptionTexts("grid.columns.options", group.grid.columns.options)
              ELSE {})
        \cup (IF Has(item, "imageItem")
              THEN {<<"imageItem.image.altText", 0, item.imageItem.image.altText>>}
              ELSE {})
        \cup (IF Has(item, "videoItem")
              THEN {<<"videoItem.caption", 0, item.videoItem.caption>>}
              ELSE {})

\* check_for_newlines: the paths of the texts that hold a line feed or a
\* carriage return
check_for_newlines(obj) == {<<t[1], t[2]>> : t \in {x \in TextsOf(obj) : HasNewline(x[3])}}

(***************************************************************************)
(* C25. No string value anywhere inside a createItem payload built for    *)
(* duplication, at any depth, grid row-question titles and text, image    *)
(* and video item payloads included, holds a line feed or a carriage      *)
(* return: check_for_newlines reports no issue.                           *)
(***************************************************************************)
C25_NoNewlineAnywhere ==
    Sanitized => check_for_newlines(san_first) = {}

(***************************************************************************)
(* C24. Drive name synchronization: after a duplication (create_form      *)
(* inside it) returns successfully, the Drive document name of the form   *)
(* it created equals that form's Forms-API title, including when the      *)
(* Drive files.update call failed.                                        *)
(***************************************************************************)
C24_DriveNameSynchronized ==
    pc = "done" => driveName = dest.info.title

(***************************************************************************)
(* Item operations: add_question, update_item, delete_question and        *)
(* move_question, each one call on a remote form.                         *)
(***************************************************************************)
\* the largest number of items of the form an item operation runs on
MaxOpsItems == 2

QuestionTypes ==
    {"SHORT_ANSWER", "PARAGRAPH", "MULTIPLE_CHOICE", "CHECKBOXES", "DROPDOWN", "LINEAR_SCALE",
     "DATE", "TIME", "FILE_UPLOAD", "MULTIPLE_CHOICE_GRID", "CHECKBOX_GRID", "RATING"}

\* [{"value": opt} for opt in options]
OptionList(values) == [k \in DOMAIN values |-> [value |-> values[k]]]

ChoiceQuestion(kind, kwargs) ==
    [type |-> kind, options |-> OptionList(Get(kwargs, "options", <<>>))]

GridQuestion(kind, kwargs) ==
    LET rows == Get(kwargs, "rows", <<>>)
    IN  [questions |-> [k \in DOMAIN rows |-> [rowQuestion |-> [title |-> rows[k]]]],
         grid |-> [columns |-> [type |-> kind,
                                options |-> OptionList(Get(kwargs, "columns", <<>>))]]]

\* the `question` object add_question builds for a supported type
QuestionBody(question_type, kwargs) ==
    LET question == [required |-> Get(kwargs, "required", FALSE)]
    IN  CASE question_type = "SHORT_ANSWER" ->
                 Put(question, "textQuestion", [paragraph |-> FALSE])
          [] question_type = "PARAGRAPH" ->
                 Put(question, "textQuestion", [paragraph |-> TRUE])
          [] question_type = "MULTIPLE_CHOICE" ->
                 Put(question, "choiceQuestion", ChoiceQuestion("RADIO", kwargs))
          [] question_type = "CHECKBOXES" ->
                 Put(question, "choiceQuestion", ChoiceQuestion("CHECKBOX", kwargs))
          [] question_type = "DROPDOWN" ->
                 Put(question, "choiceQuestion", ChoiceQuestion("DROP_DOWN", kwargs))
          [] question_type = "LINEAR_SCALE" ->
                 Put(question, "scaleQuestion",
                     [low |-> Get(kwargs, "low", 1), high |-> Get(kwargs, "high", 5),
                      lowLabel |-> Get(kwargs, "lowLabel", <<>>),
                      highLabel |-> Get(kwargs, "highLabel", <<>>)])
          [] question_type = "DATE" ->
                 Put(question, "dateQuestion", [includeTime |-> FALSE, includeYear |-> TRUE])
          [] question_type = "TIME" ->
                 Put(question, "timeQuestion", [duration |-> FALSE])
          [] question_type = "FILE_UPLOAD" ->
                 Put(question, "fileUploadQuestion",
                     [folderId |-> Get(kwargs, "folderId", <<>>),
                      maxFiles |-> Get(kwargs, "maxFiles", 1),
                      maxFileSize |-> Get(kwargs, "maxFileSize", 10485760),
                      types |-> Get(kwargs, "allowedTypes", <<>>)])
          [] question_type = "MULTIPLE_CHOICE_GRID" ->
                 Put(question, "questionGroupItem", GridQuestion("RADIO", kwargs))
          [] question_type = "CHECKBOX_GRID" ->
                 Put(question, "questionGroupItem", GridQuestion("CHECKBOX", kwargs))
          [] question_type = "RATING" ->
                 Put(question, "scaleQuestion",
                     [low |-> 1, high |-> Get(kwargs, "high", 5),
                      lowLabel |-> <<>>, highLabel |-> <<>>])

\* the if/elif chain of add_question ends in a ValueError for any other type
Supported(question_type) == question_type \in QuestionTypes

AddQuestionRequest(question_type, title, kwargs) ==
    [createItem |->
        [item |-> [title |-> title,
                   questionItem |-> [question |-> QuestionBody(question_type, kwargs)]],
         location |-> [index |-> Get(kwargs, "position", 0)]]]

\* update_item's two validation errors
UpdateItemError(item_index, update_mask) ==
    IF item_index < 0 THEN "ValueError: not found"
    ELSE IF update_mask = <<>> THEN "ValueError: no fields"
    ELSE "none"

\* the request of the root-level forms_api.py's update_question: the item
\* holds the named fields only, and nothing checks that one was named
UpdateQuestionRequest(item_index, kwargs) ==
    LET u1 == IF Has(kwargs, "title") THEN Put(EmptyDict, "title", kwargs.title) ELSE EmptyDict
        updates == IF Has(kwargs, "required")
                   THEN Put(u1, "questionItem", [question |-> [required |-> kwargs.required]])
                   ELSE u1
        update_mask == (IF Has(kwargs, "title") THEN <<"title">> ELSE <<>>)
                       \o (IF Has(kwargs, "required") THEN <<RequiredPath>> ELSE <<>>)
    IN  [updateItem |-> [item |-> updates,
                         location |-> [index |-> item_index],
                         updateMask |-> update_mask]]

DeleteItemRequest(item_index) ==
    [deleteItem |-> [location |-> [index |-> item_index]]]

MoveItemRequest(item_index, new_position) ==
    [moveItem |-> [originalLocation |-> [index |-> item_index],
                   newLocation |-> [index |-> new_position]]]

\* the forms an item operation runs on: their items carry any itemIds, in
\* any order, as after earlier insertions, moves and deletions
Perms(n) == {p \in [1 .. n -> 1 .. n] : \A i, j \in 1 .. n : p[i] = p[j] => i = j}

OpsItemSeqs ==
    UNION {{[k \in 1 .. n |-> WithIds(sh[k], p[k])] : sh \in [1 .. n -> Shapes], p \in Perms(n)} :
           n \in 0 .. MaxOpsItems}

OpsForms ==
    {[formId |-> "f", info |-> [title |-> <<"T">>], items |-> its] : its \in OpsItemSeqs}

\* the item_id arguments: the last one is the id of no item
OpsItemIds == 1 .. MaxOpsItems + 1

\* the itemId the remote gives to a created item
OpsFreshId == MaxOpsItems + 2

\* a question type add_question does not know
UnknownType == "STAR_RATING"

KwargsOf(fields) ==
    LET k1 == IF "title" \in fields THEN Put(EmptyDict, "title", <<"n">>) ELSE EmptyDict
        k2 == IF "description" \in fields THEN Put(k1, "description", <<"m">>) ELSE k1
    IN  IF "required" \in fields THEN Put(k2, "required", FALSE) ELSE k2

\* the keyword arguments of an update_item call
OpsKwargs == {KwargsOf(fields) : fields \in SUBSET {"title", "description", "required"}}

\* one batchUpdate on the form: `fails` is the remote's choice to answer
\* with an HttpError
OpsBatchUpdate(requests, fails) ==
    LET r == ApplyRequests(ops_form, requests, OpsFreshId)
    IN  IF fails THEN [r EXCEPT !.ok = FALSE] ELSE r

\* the state when the operation ends: `requests` is empty when it issued no
\* batchUpdate
OpsEnd(call, fetched_forms, requests, out, err) ==
    LET wrote == requests # <<>> /\ out.ok
        raised == IF err # "none" THEN err
                  ELSE IF requests # <<>> /\ ~out.ok THEN "Exception" ELSE "none"
    IN  /\ ops_call' = call
        /\ ops_fetched' = fetched_forms
        /\ ops_sent' = IF requests = <<>> THEN <<>>
                       ELSE <<[requests |-> requests, ok |-> out.ok]>>
        /\ ops_form' = IF wrote THEN out.form ELSE ops_form
        /\ ops_error' = raised
        /\ ops_pc' = IF raised = "none" THEN "returned" ELSE "raised"
        /\ UNCHANGED <<dupVars, sanVars, perVars, tplVars, lstVars, ops_before>>

OpsInit ==
    /\ DupIdle
    /\ SanIdle
    /\ PerIdle
    /\ TplIdle
    /\ LstIdle
    /\ ops_pc = "ready"
    /\ ops_form \in OpsForms
    /\ ops_before = ops_form
    /\ ops_call = EmptyDict
    /\ ops_fetched = <<>>
    /\ ops_sent = <<>>
    /\ ops_error = "none"

\* add_question(form_id, question_type, title, position=position)
AddQuestion ==
    /\ ops_pc = "ready"
    /\ \E question_type \in QuestionTypes \cup {UnknownType},
          position \in 0 .. Len(Items(ops_form)) + 1,
          fails \in BOOLEAN :
          LET kwargs == [position |-> position, options |-> << <<"o">> >>,
                         rows |-> << <<"r">> >>, columns |-> << <<"c">> >>]
              requests == IF Supported(question_type)
                          THEN <<AddQuestionRequest(question_type, <<"q">>, kwargs)>>
                          ELSE <<>>
          IN  OpsEnd([op |-> "add_question", question_type |-> question_type,
                      position |-> position],
                     <<>>, requests, OpsBatchUpdate(requests, fails),
                     IF Supported(question_type) THEN "none"
                     ELSE "ValueError: unsupported type")

\* update_item(form_id, item_id, **kwargs), update_question being its alias
UpdateItemCall ==
    /\ ops_pc = "ready"
    /\ \E item_id \in OpsItemIds, kwargs \in OpsKwargs,
          outcome \in {"ok", "get_fails", "write_fails"} :
          LET form == GetResponse(ops_form)
              items == Items(form)
              item_index == IndexOf(items, item_id)
              request == UpdateItemRequest(items[item_index + 1], item_index, kwargs)
              err == IF outcome = "get_fails" THEN "Exception: get_form"
                     ELSE UpdateItemError(item_index,
                              IF item_index < 0 THEN <<>> ELSE request.updateItem.updateMask)
              requests == IF err = "none" THEN <<request>> ELSE <<>>
          IN  OpsEnd([op |-> "update_item", item_id |-> item_id, kwargs |-> kwargs],
                     IF outcome = "get_fails" THEN <<>> ELSE <<form>>,
                     requests, OpsBatchUpdate(requests, outcome = "write_fails"), err)

\* update_question(form_id, item_id, **kwargs) of the root-level forms_api.py,
\* the module the MCP tools call
UpdateQuestion ==
    /\ ops_pc = "ready"
    /\ \E item_id \in OpsItemIds, kwargs \in OpsKwargs,
          outcome \in {"ok", "get_fails", "write_fails"} :
          LET form == GetResponse(ops_form)
              item_index == IndexOf(Items(form), item_id)
              err == IF outcome = "get_fails" THEN "Exception: get_form"
                     ELSE IF item_index < 0 THEN "ValueError: not found" ELSE "none"
              requests == IF err = "none"
                          THEN <<UpdateQuestionRequest(item_index, kwargs)>> ELSE <<>>
          IN  OpsEnd([op |-> "update_question", item_id |-> item_id, kwargs |-> kwargs],
                     IF outcome = "get_fails" THEN <<>> ELSE <<form>>,
                     requests, OpsBatchUpdate(requests, outcome = "write_fails"), err)

\* delete_question(form_id, item_id)
DeleteQuestion ==
    /\ ops_pc = "ready"
    /\ \E item_id \in OpsItemIds, outcome \in {"ok", "get_fails", "write_fails"} :
          LET form == GetResponse(ops_form)
              item_index == IndexOf(Items(form), item_id)
              err == IF outcome = "get_fails" THEN "Exception: get_form"
                     ELSE IF item_index < 0 THEN "ValueError: not found" ELSE "none"
              requests == IF err = "none" THEN <<DeleteItemRequest(item_index)>> ELSE <<>>
          IN  OpsEnd([op |-> "delete_question", item_id |-> item_id],
                     IF outcome = "get_fails" THEN <<>> ELSE <<form>>,
                     requests, OpsBatchUpdate(requests, outcome = "write_fails"), err)

\* move_question(form_id, item_id, new_position)
MoveQuestion ==
    /\ ops_pc = "ready"
    /\ \E item_id \in OpsItemIds, new_position \in 0 .. Len(Items(ops_form)),
          outcome \in {"ok", "get_fails", "write_fails"} :
          LET form == GetResponse(ops_form)
              item_index == IndexOf(Items(form), item_id)
              err == IF outcome = "get_fails" THEN "Exception: get_form"
                     ELSE IF item_index < 0 THEN "ValueError: not found" ELSE "none"
              requests == IF err = "none"
                          THEN <<MoveItemRequest(item_index, new_position)>> ELSE <<>>
          IN  OpsEnd([op |-> "move_question", item_id |-> item_id,
                      new_position |-> new_position],
                     IF outcome = "get_fails" THEN <<>> ELSE <<form>>,
                     requests, OpsBatchUpdate(requests, outcome = "write_fails"), err)

OpsNext ==
    \/ AddQuestion
    \/ UpdateItemCall
    \/ UpdateQuestion
    \/ DeleteQuestion
    \/ MoveQuestion

OpsSpec == OpsInit /\ [][OpsNext]_vars

(***************************************************************************)
(* Properties of the item operations.                                     *)
(***************************************************************************)
OpsDone == ops_pc \in {"returned", "raised"}

HoldsItem(form, item_id) ==
    \E k \in DOMAIN form.items :
        Has(form.items[k], "itemId") /\ form.items[k].itemId = item_id

\* the call is one of the three invalid calls: a question type that is not
\* supported, an item the form does not hold, an update that names no field
InvalidCall ==
    \/ ops_call.op = "add_question" /\ ops_call.question_type \notin QuestionTypes
    \/ /\ ops_call.op \in {"update_item", "update_question", "delete_question",
                           "move_question"}
       /\ ~HoldsItem(ops_before, ops_call.item_id)
    \/ ops_call.op \in {"update_item", "update_question"} /\ DOMAIN ops_call.kwargs = {}

(***************************************************************************)
(* C21. Validation errors are raised and never turned into a write:       *)
(* add_question with an unsupported question type, update_item,           *)
(* delete_question or move_question with an itemId the form does not      *)
(* hold, and an update (update_item, or update_question of either module)  *)
(* that names no field each raise an error, issue no batchUpdate, and     *)
(* leave the remote form unchanged.                                       *)
(***************************************************************************)
C21_ValidationErrorsRaise ==
    (OpsDone /\ InvalidCall) =>
        /\ ops_pc = "raised"
        /\ ops_error # "none"
        /\ ops_sent = <<>>
        /\ ops_form = ops_before

Without(f, keys) == [k \in DOMAIN f \ keys |-> f[k]]

\* the item apart from its identifiers, its title and its description, and
\* apart from its question's `required` flag when dropRequired
Blank(item, dropRequired) ==
    LET b == Without(item, {"itemId", "title", "description"})
        q == IF Has(b, "questionItem")
             THEN [b EXCEPT !.questionItem.question =
                      Without(@, {"questionId"} \cup
                                 (IF dropRequired THEN {"required"} ELSE {}))]
             ELSE b
    IN  IF Has(q, "questionGroupItem")
        THEN [q EXCEPT !.questionGroupItem.questions =
                 [j \in DOMAIN @ |-> Without(@[j], {"questionId"})]]
        ELSE q

(***************************************************************************)
(* C23. Every updateItem request that update_item builds carries the item *)
(* as fetched in that same operation, with its itemId and all questionIds *)
(* removed and only the requested fields (title, description, required)   *)
(* replaced, and its location index is the position of that item in the   *)
(* form as fetched in that same operation.                                *)
(***************************************************************************)
C23_UpdateItemRequest ==
    (OpsDone /\ ops_call.op = "update_item" /\ ops_sent # <<>>) =>
        /\ Len(ops_fetched) = 1
        /\ Len(ops_sent) = 1
        /\ Len(ops_sent[1].requests) = 1
        /\ LET req == ops_sent[1].requests[1].updateItem
               items == ops_fetched[1].items
               kwargs == ops_call.kwargs
           IN  /\ req.location.index + 1 \in DOMAIN items
               /\ LET it == items[req.location.index + 1]
                      required == Has(kwargs, "required") /\ Has(it, "questionItem")
                  IN  /\ it.itemId = ops_call.item_id
                      /\ NoIds(req.item)
                      /\ Blank(req.item, required) = Blank(it, required)
                      /\ required =>
                            req.item.questionItem.question.required = kwargs.required
                      /\ \A f \in {"title", "description"} :
                            IF Has(kwargs, f)
                            THEN Has(req.item, f) /\ req.item[f] = kwargs[f]
                            ELSE /\ Has(req.item, f) <=> Has(it, f)
                                 /\ Has(it, f) => req.item[f] = it[f]

\* an update of the title and the required flag of a question whose itemId
\* differs from its position was sent
C23_Witness ==
    /\ OpsDone
    /\ ops_call.op = "update_item"
    /\ ops_sent # <<>>
    /\ DOMAIN ops_call.kwargs = {"title", "required"}
    /\ LET req == ops_sent[1].requests[1].updateItem
       IN  /\ req.location.index + 1 # ops_call.item_id
           /\ Has(req.item, "questionItem")
           /\ Has(ops_fetched[1].items[req.location.index + 1].questionItem.question,
                  "questionId")

(***************************************************************************)
(* create_from_template: create_form, then one add_question for each      *)
(* question of the template.                                              *)
(***************************************************************************)
\* the largest number of questions of a template
MaxQuestions == 3

\* str.upper() on the spellings of a question type the templates use
Upper(t) == IF t = "paragraph" THEN "PARAGRAPH" ELSE t

\* the template questions: one without `type`, one with a lower-case type,
\* one with options, one of a type add_question does not know, one
\* without `title`
TemplateQuestions ==
    {[title |-> <<"a">>],
     [type |-> "paragraph", title |-> <<" ", "b", "\n">>, required |-> TRUE],
     [type |-> "CHECKBOXES", title |-> <<"c">>, options |-> << <<"o">> >>],
     [type |-> UnknownType, title |-> <<"s">>],
     [type |-> "DATE"]}

Templates ==
    UNION {[1 .. n -> TemplateQuestions] : n \in 0 .. MaxQuestions}

\* the keyword arguments create_from_template passes to add_question
TemplateKwargs(q, question_type, position) ==
    LET kwargs == [required |-> Get(q, "required", FALSE), position |-> position]
    IN  IF question_type \in {"MULTIPLE_CHOICE", "CHECKBOXES", "DROPDOWN"}
        THEN Put(kwargs, "options", Get(q, "options", <<>>))
        ELSE IF question_type \in {"LINEAR_SCALE", "RATING"}
        THEN Put(Put(Put(Put(kwargs, "low", Get(q, "low", 1)),
                         "high", Get(q, "high", 5)),
                     "lowLabel", Get(q, "lowLabel", <<>>)),
                 "highLabel", Get(q, "highLabel", <<>>))
        ELSE IF question_type \in {"MULTIPLE_CHOICE_GRID", "CHECKBOX_GRID"}
        THEN Put(Put(kwargs, "rows", Get(q, "rows", <<>>)),
                 "columns", Get(q, "columns", <<>>))
        ELSE IF question_type = "FILE_UPLOAD"
        THEN Put(Put(Put(Put(kwargs, "folderId", Get(q, "folderId", <<>>)),
                         "maxFiles", Get(q, "maxFiles", 1)),
                     "maxFileSize", Get(q, "maxFileSize", 10485760)),
                 "allowedTypes", Get(q, "allowedTypes", <<>>))
        ELSE kwargs

\* a position that follows the loop: it moves on after a failed question too
NextPositionAlways(position, added) == position + 1

\* actual_position after one question: it moves on only when the question
\* was added
NextPosition(position, added) == IF added THEN position + 1 ELSE position

TemplateResult(form, added) ==
    [formId |-> form.formId,
     responderUri |-> form.responderUri,
     editUri |-> <<"https://docs.google.com/forms/d/", form.formId, "/edit">>,
     questionsAdded |-> added]

TplInit ==
    /\ DupIdle
    /\ SanIdle
    /\ PerIdle
    /\ OpsIdle
    /\ LstIdle
    /\ tpl_pc = "create"
    /\ tpl_questions \in Templates
    /\ tpl_form = EmptyDict
    /\ tpl_i = 0
    /\ questions_added = 0
    /\ actual_position = 0
    /\ tpl_log = <<>>
    /\ tpl_result = EmptyDict

\* api.create_form(title, description): forms.create, the batchUpdate of a
\* description that is not empty, the Drive rename whose failure is
\* swallowed
TplCreateForm ==
    /\ tpl_pc = "create"
    /\ \E description \in {<<>>, <<"d">>},
          outcome \in {"ok", "create_fails", "describe_fails", "sync_fails"} :
          LET created == [formId |-> "new", responderUri |-> "uri-new",
                          info |-> [title |-> <<"T">>], items |-> <<>>]
              out == ApplyRequests(created, DescribeRequests(description), 1)
              described == IF description # <<>> THEN out.form ELSE created
              raised == \/ outcome = "create_fails"
                        \/ outcome = "describe_fails" /\ description # <<>>
          IN  /\ tpl_form' = IF outcome = "create_fails" THEN tpl_form
                             ELSE IF raised THEN created
                             ELSE described
              /\ tpl_pc' = IF raised THEN "raised"
                           ELSE IF tpl_questions = <<>> THEN "done" ELSE "question"
              /\ tpl_result' = IF ~raised /\ tpl_questions = <<>>
                               THEN TemplateResult(created, 0) ELSE tpl_result
    /\ UNCHANGED <<dupVars, sanVars, perVars, opsVars, lstVars, tpl_questions, tpl_i,
                   questions_added, actual_position, tpl_log>>

\* one turn of the loop over the template's questions: the try block with
\* its add_question call, and the except that prints a warning
TplQuestion ==
    /\ tpl_pc = "question"
    /\ \E fails \in BOOLEAN :
          LET q == tpl_questions[tpl_i + 1]
              question_type == Upper(Get(q, "type", "SHORT_ANSWER"))
              key_error == ~Has(q, "title")
              title == CleanStrip(q.title)
              kwargs == TemplateKwargs(q, question_type, actual_position)
              requests == IF ~key_error /\ Supported(question_type)
                          THEN <<AddQuestionRequest(question_type, title, kwargs)>>
                          ELSE <<>>
              out == ApplyRequests(tpl_form, requests, tpl_i + 1)
              added == requests # <<>> /\ ~fails /\ out.ok
              last == tpl_i + 1 = Len(tpl_questions)
              n_added == IF added THEN questions_added + 1 ELSE questions_added
          IN  /\ tpl_form' = IF added THEN out.form ELSE tpl_form
              /\ questions_added' = n_added
              /\ actual_position' = NextPosition(actual_position, added)
              /\ tpl_log' = Append(tpl_log,
                                [called |-> ~key_error,
                                 position |-> actual_position,
                                 requests |-> requests,
                                 ok |-> added])
              /\ tpl_pc' = IF last THEN "done" ELSE "question"
              /\ tpl_result' = IF last THEN TemplateResult(tpl_form, n_added) ELSE tpl_result
    /\ tpl_i' = tpl_i + 1
    /\ UNCHANGED <<dupVars, sanVars, perVars, opsVars, lstVars, tpl_questions>>

TplNext ==
    \/ TplCreateForm
    \/ TplQuestion

TplSpec == TplInit /\ [][TplNext]_vars

\* the add_question calls that succeeded among the first n template questions
AddedBefore(n) == Cardinality({j \in 1 .. n : tpl_log[j].called /\ tpl_log[j].ok})

MaxFiles == 3

\* the k-th remote form: its responderUri, when it has one, names it; the
\* empty sequence stands for the empty string
RemoteForm(k, published, n_responses) ==
    LET f == [formId |-> k, info |-> [title |-> <<"T", k>>], responses |-> n_responses]
    IN  IF published THEN Put(f, "responderUri", <<"uri", k>>) ELSE f

RemoteFormLists ==
    UNION {{[k \in 1 .. n |-> RemoteForm(k, pub[k], cnt[k])] :
                pub \in [1 .. n -> BOOLEAN], cnt \in [1 .. n -> {0, 1}]} :
           n \in 0 .. MaxFiles}

\* results.get('files', []) of the Drive listing
DriveFiles(forms) ==
    [k \in DOMAIN forms |-> [id |-> forms[k].formId, name |-> forms[k].info.title]]

\* the entry list_forms appends for a file
ListEntry(file, form, response_count) ==
    [formId |-> file.id,
     title |-> file.name,
     responderUri |-> Get(form, "responderUri", <<>>),
     responseCount |-> response_count]

LstInit ==
    /\ DupIdle
    /\ SanIdle
    /\ PerIdle
    /\ OpsIdle
    /\ TplIdle
    /\ lst_pc = "list"
    /\ lst_remote \in RemoteFormLists
    /\ lst_files = <<>>
    /\ lst_i = 0
    /\ lst_form = <<>>
    /\ lst_forms = <<>>
    /\ lst_failed = {}
    /\ lst_error = "none"

\* drive_service.files().list(**params).execute()
ListFiles ==
    /\ lst_pc = "list"
    /\ \E fails \in BOOLEAN :
          IF fails
          THEN /\ lst_pc' = "raised"
               /\ lst_error' = "Failed to list forms"
               /\ UNCHANGED lst_files
          ELSE /\ lst_files' = DriveFiles(lst_remote)
               /\ lst_pc' = IF lst_remote = <<>> THEN "done" ELSE "file"
               /\ UNCHANGED lst_error
    /\ UNCHANGED <<dupVars, sanVars, perVars, opsVars, tplVars, lst_remote, lst_i, lst_form,
                   lst_forms, lst_failed>>

\* one turn of the loop over the files: the try block with forms.get and
\* responses.list, the except that sets the count to 0, and the append that
\* reads `form`
ListForm ==
    /\ lst_pc = "file"
    /\ \E outcome \in {"ok", "get_fails", "responses_fail"} :
          LET file == lst_files[lst_i + 1]
              got == lst_remote[lst_i + 1]
              form == IF outcome = "get_fails" THEN lst_form ELSE <<got>>
              response_count == IF outcome = "ok" THEN got.responses ELSE 0
              last == lst_i + 1 = Len(lst_files)
          IN  /\ lst_form' = form
              /\ lst_failed' = IF outcome = "ok" THEN lst_failed
                               ELSE lst_failed \cup {lst_i + 1}
              /\ IF form = <<>>
                 THEN /\ lst_pc' = "raised"
                      /\ lst_error' = "UnboundLocalError"
                      /\ UNCHANGED lst_forms
                 ELSE /\ lst_forms' = Append(lst_forms,
                                          ListEntry(file, form[1], response_count))
                      /\ lst_pc' = IF last THEN "done" ELSE "file"
                      /\ UNCHANGED lst_error
    /\ lst_i' = lst_i + 1
    /\ UNCHANGED <<dupVars, sanVars, perVars, opsVars, tplVars, lst_remote, lst_files>>

LstNext ==
    \/ ListFiles
    \/ ListForm

LstSpec == LstInit /\ [][LstNext]_vars

(***************************************************************************)
(* C30. For every list of Drive files and any pattern of per-form fetch   *)
(* failures, each entry list_forms builds carries the responderUri of the *)
(* form whose formId it reports, or none, never the one fetched for       *)
(* another form, and list_forms does not fail because the details of one  *)
(* form could not be fetched.                                             *)
(***************************************************************************)
C30_OwnResponderUri ==
    /\ \A k \in DOMAIN lst_forms :
          /\ lst_forms[k].formId = lst_remote[k].formId
          /\ lst_forms[k].responderUri \in {Get(lst_remote[k], "responderUri", <<>>), <<>>}
    /\ lst_pc = "raised" => lst_error = "Failed to list forms"

====
